---- MODULE Spec2Model ----
(***************************************************************************)
(* Incremental TCP flow reconstruction engine of tcp_data_loader_streaming *)
(* (process_single_flow, detect_tcp_flows_incremental and the batch loop   *)
(* of process_tcp_data_chunked).                                           *)
(*                                                                         *)
(* Python values are represented as follows.  A string (address, key) is a *)
(* sequence of character codes, so that "<" on strings is the              *)
(* lexicographic order LexLess.  None is NoneStr for an address, NonePort  *)
(* for a port, NoneNum for a number, "none" for closeType/invalidReason    *)
(* and the empty sequence for an optional packet (<<p>> holds packet p).   *)
(* A sequence or acknowledgment number is a Python int, which has no       *)
(* width: it is held as its two digits <<high, low>> in base 2^16, so that *)
(* 2^32 - 1 and 2^32 are values of the model, and NoneNum is <<>>.         *)
(* A packet carries uid, the row number of the record in the input: two    *)
(* rows with equal fields are still two packet objects.                    *)
(***************************************************************************)
EXTENDS Integers, Sequences, FiniteSets

\* ---------------------------------------------------------------- bounds
MaxPackets == 3
MaxBatch == 2
MaxFsmLen == 4
MaxTail == 2
MaxKeyPackets == 2

\* ------------------------------------------------------- program constants
FIN == 1
SYN == 2
RST == 4
PSH == 8
ACK == 16
MICROS_PER_SECOND == 1000000

\* The run's inactivity timeout (flow_timeout_seconds) and output batch size
\* (chunk_size): configuration values, fixed for a run.
FlowTimeoutSeconds == 5
ChunkSize == 2

NoneStr == <<>>
NonePort == 0
NoneNum == <<>>
NoneTs == -1

\* Python ints as two digits in base 2^16: the int n, and n + 1.
Base == 256 * 256
PyInt(n) == <<n \div Base, n % Base>>
\* PlusOne reduced modulo 2^32, as a 32-bit sequence number would be.
PlusOneMod32(x) ==
    IF x[2] = Base - 1
    THEN (IF x[1] = Base - 1 THEN <<0, 0>> ELSE <<x[1] + 1, 0>>)
    ELSE <<x[1], x[2] + 1>>
PlusOne(x) == IF x[2] = Base - 1 THEN <<x[1] + 1, 0>> ELSE <<x[1], x[2] + 1>>

\* ------------------------------------------------------------- helpers
FlagSet(flags, mask) == (flags \div mask) % 2 = 1

RECURSIVE LexLess(_, _)
LexLess(s, t) ==
    IF t = <<>> THEN FALSE
    ELSE IF s = <<>> THEN TRUE
    ELSE IF Head(s) < Head(t) THEN TRUE
    ELSE IF Head(s) > Head(t) THEN FALSE
    ELSE LexLess(Tail(s), Tail(t))

\* str(n) for a non-negative integer: its decimal digits as character codes.
RECURSIVE DecStr(_)
DecStr(n) == IF n < 10 THEN <<48 + n>> ELSE DecStr(n \div 10) \o <<48 + (n % 10)>>

\* f"flow_{flow_counter:06d}": the counter in decimal, padded with zeros to
\* six digits at least, after the characters of "flow_".
RECURSIVE ZeroPad(_, _)
ZeroPad(digits, width) ==
    IF Len(digits) >= width THEN digits ELSE ZeroPad(<<48>> \o digits, width)

FlowIdText(counter) == <<102, 108, 111, 119, 95>> \o ZeroPad(DecStr(counter), 6)

COLON == 58
DASH == 45

\* f"{ip1}:{port1}-{ip2}:{port2}"
ConnString(ip1, port1, ip2, port2) ==
    ip1 \o <<COLON>> \o DecStr(port1) \o <<DASH>> \o ip2 \o <<COLON>> \o DecStr(port2)

\* ConnectionKey keeping the packet's own direction.
ConnectionKeyDirected(packet) ==
    ConnString(packet.src_ip, packet.src_port, packet.dst_ip, packet.dst_port)

ConnectionKey(packet) ==
    LET connection_a == ConnString(packet.src_ip, packet.src_port, packet.dst_ip, packet.dst_port)
        connection_b == ConnString(packet.dst_ip, packet.dst_port, packet.src_ip, packet.src_port)
    IN  IF LexLess(connection_a, connection_b) THEN connection_a ELSE connection_b

\* list.sort(key=timestamp): a stable sort, as an insertion sort that puts a
\* packet after every packet whose timestamp is not larger.
RECURSIVE InsertByTs(_, _)
InsertByTs(sorted, p) ==
    IF sorted = <<>> THEN <<p>>
    ELSE IF sorted[Len(sorted)].timestamp <= p.timestamp THEN Append(sorted, p)
    ELSE Append(InsertByTs(SubSeq(sorted, 1, Len(sorted) - 1), p), sorted[Len(sorted)])

\* SortByTs leaving the buffer in arrival order.
SortByTsArrivalOrder(pkts) == pkts

RECURSIVE SortByTs(_)
SortByTs(pkts) ==
    IF pkts = <<>> THEN <<>>
    ELSE InsertByTs(SortByTs(SubSeq(pkts, 1, Len(pkts) - 1)), pkts[Len(pkts)])

RECURSIVE SumLength(_)
SumLength(pkts) == IF pkts = <<>> THEN 0 ELSE Head(pkts).length + SumLength(Tail(pkts))

\* ------------------------------------------------- process_single_flow
NewFlow(connection_key, connection_packets, flow_id) ==
    [ id |-> flow_id,
      key |-> connection_key,
      initiator |-> NoneStr,
      responder |-> NoneStr,
      initiatorPort |-> NonePort,
      responderPort |-> NonePort,
      state |-> "new",
      establishment |-> <<>>,
      dataTransfer |-> <<>>,
      closing |-> <<>>,
      establishmentComplete |-> FALSE,
      dataTransferStarted |-> FALSE,
      closingStarted |-> FALSE,
      closeType |-> "none",
      startTime |-> connection_packets[1].timestamp,
      endTime |-> connection_packets[Len(connection_packets)].timestamp,
      totalPackets |-> Len(connection_packets),
      totalBytes |-> SumLength(connection_packets),
      invalidReason |-> "none",
      expectedSeqNum |-> NoneNum,
      expectedAckNum |-> NoneNum,
      invalidPacket |-> <<>>,
      synPacket |-> <<>>,
      synAckPacket |-> <<>>,
      packets |-> <<>>,
      ongoing |-> FALSE,
      completed_by_timeout |-> FALSE ]

PhaseEntry(packet, phase, description) ==
    [packet |-> packet, phase |-> phase, description |-> description]

\* Each branch of the loop body yields the flow and whether the loop breaks.
Go(flow) == [flow |-> flow, brk |-> FALSE]
Break(flow) == [flow |-> flow, brk |-> TRUE]

\* OnSyn expecting the SYN's own sequence number to be acknowledged.
OnSynExpectingSeq(flow, packet) ==
    IF flow.initiator = NoneStr
    THEN Go([flow EXCEPT
               !.initiator = packet.src_ip,
               !.responder = packet.dst_ip,
               !.initiatorPort = packet.src_port,
               !.responderPort = packet.dst_port,
               !.state = "establishing",
               !.synPacket = <<packet>>,
               !.expectedAckNum = packet.seq_num,
               !.establishment = Append(@, PhaseEntry(packet, "syn", "Connection Request"))])
    ELSE Go(flow)

\* OnSyn taking every connection request as the first one.
OnSynEveryTime(flow, packet) ==
    Go([flow EXCEPT
          !.initiator = packet.src_ip,
          !.responder = packet.dst_ip,
          !.initiatorPort = packet.src_port,
          !.responderPort = packet.dst_port,
          !.state = "establishing",
          !.synPacket = <<packet>>,
          !.expectedAckNum = PlusOne(packet.seq_num),
          !.establishment = Append(@, PhaseEntry(packet, "syn", "Connection Request"))])

\* if syn and not ack and not rst
OnSyn(flow, packet) ==
    IF flow.initiator = NoneStr
    THEN Go([flow EXCEPT
               !.initiator = packet.src_ip,
               !.responder = packet.dst_ip,
               !.initiatorPort = packet.src_port,
               !.responderPort = packet.dst_port,
               !.state = "establishing",
               !.synPacket = <<packet>>,
               !.expectedAckNum = PlusOne(packet.seq_num),
               !.establishment = Append(@, PhaseEntry(packet, "syn", "Connection Request"))])
    ELSE Go(flow)

\* OnSynAck accepting any acknowledgment number.
OnSynAckUnchecked(flow, packet) ==
    IF flow.synAckPacket = <<>> \/ flow.state = "establishing"
    THEN Go([flow EXCEPT
               !.synAckPacket = <<packet>>,
               !.expectedSeqNum = PlusOne(packet.seq_num),
               !.establishment = Append(@, PhaseEntry(packet, "syn_ack", "Connection Acceptance"))])
    ELSE Go(flow)

\* elif syn and ack and not rst
OnSynAck(flow, packet) ==
    IF flow.state = "establishing" /\ flow.synPacket # <<>>
    THEN IF packet.ack_num = flow.expectedAckNum
         THEN Go([flow EXCEPT
                    !.synAckPacket = <<packet>>,
                    !.expectedSeqNum = PlusOne(packet.seq_num),
                    !.establishment = Append(@, PhaseEntry(packet, "syn_ack", "Connection Acceptance"))])
         ELSE Break([flow EXCEPT
                    !.state = "invalid",
                    !.invalidReason = "invalid_synack",
                    !.invalidPacket = <<packet>>,
                    !.closeType = "invalid"])
    ELSE IF flow.synAckPacket = <<>>
    THEN Go([flow EXCEPT
               !.establishment = Append(@, PhaseEntry(packet, "syn_ack", "Connection Acceptance")),
               !.synAckPacket = <<packet>>])
    ELSE Go(flow)

Established(flow, packet) ==
    [flow EXCEPT
       !.establishment = Append(@, PhaseEntry(packet, "ack", "Connection Established")),
       !.establishmentComplete = TRUE,
       !.state = "established"]

\* elif ack and not syn and not fin and not rst and not psh and state == 'establishing'
OnPureAck(flow, packet) ==
    IF flow.synAckPacket # <<>> /\ flow.expectedSeqNum # NoneNum /\ flow.expectedSeqNum # PyInt(0)
    THEN IF packet.ack_num = flow.expectedSeqNum /\ packet.seq_num = flow.expectedAckNum
         THEN Go(Established(flow, packet))
         ELSE Break([flow EXCEPT
                    !.state = "invalid",
                    !.invalidReason = "invalid_ack",
                    !.invalidPacket = <<packet>>,
                    !.closeType = "invalid"])
    ELSE IF ~flow.establishmentComplete
    THEN Go(Established(flow, packet))
    ELSE Go(flow)

\* elif ack and not syn and not fin and not rst and establishmentComplete and length > 0
OnData(flow, packet) ==
    LET f == IF ~flow.dataTransferStarted
             THEN [flow EXCEPT !.dataTransferStarted = TRUE, !.state = "data_transfer"]
             ELSE flow
    IN  Go([f EXCEPT !.dataTransfer = Append(@, PhaseEntry(packet, "data", "Data Transfer"))])

\* elif fin and not rst
OnFin(flow, packet) ==
    LET f == IF ~flow.closingStarted
             THEN [flow EXCEPT !.closingStarted = TRUE, !.state = "closing", !.closeType = "graceful"]
             ELSE flow
    IN  Go([f EXCEPT !.closing = Append(@, PhaseEntry(packet, "fin", "Close Request"))])

\* OnRst treating a reset during the handshake like any other reset.
OnRstAlwaysAborted(flow, packet) ==
    Go([flow EXCEPT !.state = "aborted", !.closeType = "abortive",
                    !.invalidPacket = <<packet>>,
                    !.closing = Append(@, PhaseEntry(packet, "rst", "Connection Aborted"))])

\* elif rst
OnRst(flow, packet) ==
    LET f == IF flow.state = "establishing"
             THEN [flow EXCEPT !.invalidReason = "rst_during_handshake",
                               !.state = "invalid", !.closeType = "invalid"]
             ELSE [flow EXCEPT !.state = "aborted", !.closeType = "abortive"]
    IN  Go([f EXCEPT !.invalidPacket = <<packet>>,
                     !.closing = Append(@, PhaseEntry(packet, "rst", "Connection Aborted"))])

\* elif ack and not syn and not fin and not rst and establishmentComplete
OnOtherAck(flow, packet) ==
    IF flow.closingStarted
    THEN Go([flow EXCEPT !.closing = Append(@, PhaseEntry(packet, "ack_close", "Close Acknowledgment"))])
    ELSE LET f == IF ~flow.dataTransferStarted
                  THEN [flow EXCEPT !.dataTransferStarted = TRUE, !.state = "data_transfer"]
                  ELSE flow
         IN  Go([f EXCEPT !.dataTransfer = Append(@, PhaseEntry(packet, "ack_data", "Data Acknowledgment"))])

\* LoopBody without the skip of the packets of an invalid flow.
LoopBodyNoInvalidSkip(flow0, packet) ==
    LET syn == FlagSet(packet.flags, SYN)
        ack == FlagSet(packet.flags, ACK)
        fin == FlagSet(packet.flags, FIN)
        rst == FlagSet(packet.flags, RST)
        psh == FlagSet(packet.flags, PSH)
        flow == [flow0 EXCEPT !.packets = Append(@, packet)]
    IN  IF syn /\ ~ack /\ ~rst THEN OnSyn(flow, packet)
        ELSE IF syn /\ ack /\ ~rst THEN OnSynAck(flow, packet)
        ELSE IF ack /\ ~syn /\ ~fin /\ ~rst /\ ~psh /\ flow.state = "establishing"
             THEN OnPureAck(flow, packet)
        ELSE IF ack /\ ~syn /\ ~fin /\ ~rst /\ flow.establishmentComplete /\ packet.length > 0
             THEN OnData(flow, packet)
        ELSE IF fin /\ ~rst THEN OnFin(flow, packet)
        ELSE IF rst THEN OnRst(flow, packet)
        ELSE IF ack /\ ~syn /\ ~fin /\ ~rst /\ flow.establishmentComplete
             THEN OnOtherAck(flow, packet)
        ELSE Go(flow)

\* One iteration of "for packet in connection_packets".
LoopBody(flow0, packet) ==
    LET syn == FlagSet(packet.flags, SYN)
        ack == FlagSet(packet.flags, ACK)
        fin == FlagSet(packet.flags, FIN)
        rst == FlagSet(packet.flags, RST)
        psh == FlagSet(packet.flags, PSH)
        flow == [flow0 EXCEPT !.packets = Append(@, packet)]
    IN  IF flow.state = "invalid" THEN Go(flow)
        ELSE IF syn /\ ~ack /\ ~rst THEN OnSyn(flow, packet)
        ELSE IF syn /\ ack /\ ~rst THEN OnSynAck(flow, packet)
        ELSE IF ack /\ ~syn /\ ~fin /\ ~rst /\ ~psh /\ flow.state = "establishing"
             THEN OnPureAck(flow, packet)
        ELSE IF ack /\ ~syn /\ ~fin /\ ~rst /\ flow.establishmentComplete /\ packet.length > 0
             THEN OnData(flow, packet)
        ELSE IF fin /\ ~rst THEN OnFin(flow, packet)
        ELSE IF rst THEN OnRst(flow, packet)
        ELSE IF ack /\ ~syn /\ ~fin /\ ~rst /\ flow.establishmentComplete
             THEN OnOtherAck(flow, packet)
        ELSE Go(flow)

\* The loop over connection_packets[i..], leaving it at a break.
RECURSIVE RunLoop(_, _, _)
RunLoop(flow, pkts, i) ==
    IF i > Len(pkts) THEN flow
    ELSE LET r == LoopBody(flow, pkts[i])
         IN  IF r.brk THEN r.flow ELSE RunLoop(r.flow, pkts, i + 1)

\* FinalValidation leaving a closing flow as it is.
FinalValidationHandshakeOnly(flow) ==
    IF flow.state = "establishing"
    THEN IF flow.synPacket = <<>>
         THEN [flow EXCEPT !.state = "invalid", !.invalidReason = "incomplete_no_syn",
                           !.closeType = "invalid"]
         ELSE IF flow.synAckPacket = <<>>
         THEN [flow EXCEPT !.state = "invalid", !.invalidReason = "incomplete_no_synack",
                           !.closeType = "invalid"]
         ELSE IF ~flow.establishmentComplete
         THEN [flow EXCEPT !.state = "invalid", !.invalidReason = "incomplete_no_ack",
                           !.closeType = "invalid"]
         ELSE flow
    ELSE flow

\* "Final flow state validation"
FinalValidation(flow) ==
    IF flow.state = "establishing"
    THEN IF flow.synPacket = <<>>
         THEN [flow EXCEPT !.state = "invalid", !.invalidReason = "incomplete_no_syn",
                           !.closeType = "invalid"]
         ELSE IF flow.synAckPacket = <<>>
         THEN [flow EXCEPT !.state = "invalid", !.invalidReason = "incomplete_no_synack",
                           !.closeType = "invalid"]
         ELSE IF ~flow.establishmentComplete
         THEN [flow EXCEPT !.state = "invalid", !.invalidReason = "incomplete_no_ack",
                           !.closeType = "invalid"]
         ELSE flow
    ELSE IF flow.state = "closing"
    THEN [flow EXCEPT !.state = "closed"]
    ELSE flow

\* MarkOngoing not looking at the close type.
MarkOngoingAnyCloseType(flow) ==
    IF /\ flow.state \notin {"invalid", "closed", "aborted"}
       /\ (flow.establishmentComplete \/ flow.dataTransferStarted)
    THEN [flow EXCEPT !.state = "ongoing", !.ongoing = TRUE, !.closeType = "open"]
    ELSE flow

\* "Mark ongoing flows explicitly"
MarkOngoing(flow) ==
    IF /\ flow.state \notin {"invalid", "closed", "aborted"}
       /\ flow.closeType = "none"
       /\ (flow.establishmentComplete \/ flow.dataTransferStarted)
    THEN [flow EXCEPT !.state = "ongoing", !.ongoing = TRUE, !.closeType = "open"]
    ELSE flow

process_single_flow(connection_key, connection_packets, flow_id) ==
    LET sorted == SortByTs(connection_packets)
    IN  MarkOngoing(FinalValidation(
            RunLoop(NewFlow(connection_key, sorted, flow_id), sorted, 1)))

\* ------------------------------------------------ classify_tcp_flags
\* The label as the list of its "+"-joined parts; the four common
\* combinations are single labels of their own.
FlagNames == <<[n |-> "ACK", v |-> 16], [n |-> "CWR", v |-> 128], [n |-> "ECE", v |-> 64],
               [n |-> "FIN", v |-> 1], [n |-> "PSH", v |-> 8], [n |-> "RST", v |-> 4],
               [n |-> "SYN", v |-> 2], [n |-> "URG", v |-> 32]>>

RECURSIVE SetFlagNames(_, _)
SetFlagNames(flag_val, i) ==
    IF i > Len(FlagNames) THEN <<>>
    ELSE (IF FlagSet(flag_val, FlagNames[i].v) THEN <<FlagNames[i].n>> ELSE <<>>)
         \o SetFlagNames(flag_val, i + 1)

classify_tcp_flags(flag_val) ==
    IF flag_val = SYN + ACK THEN <<"SYN+ACK">>
    ELSE IF flag_val = FIN + ACK THEN <<"FIN+ACK">>
    ELSE IF flag_val = PSH + ACK THEN <<"PSH+ACK">>
    ELSE IF flag_val = RST + ACK THEN <<"RST+ACK">>
    ELSE IF SetFlagNames(flag_val, 1) # <<>> THEN SetFlagNames(flag_val, 1)
    ELSE <<"NONE">>

\* ------------------------------------------ detect_tcp_flows_incremental
Max0(x) == IF x < 0 THEN 0 ELSE x
MinOf(a, b) == IF a < b THEN a ELSE b
MaxOf(a, b) == IF a > b THEN a ELSE b

\* defaultdict factory of ip_stats
IpStatsDefault ==
    [sent_packets |-> 0, recv_packets |-> 0, sent_bytes |-> 0, recv_bytes |-> 0,
     first_ts |-> NoneTs, last_ts |-> NoneTs]

IpStatsGet(stats, ip) == IF ip \in DOMAIN stats THEN stats[ip] ELSE IpStatsDefault

Put(f, k, v) == [x \in DOMAIN f \cup {k} |-> IF x = k THEN v ELSE f[x]]

SeenTs(e, ts) ==
    [e EXCEPT !.first_ts = IF e.first_ts = NoneTs THEN ts ELSE MinOf(e.first_ts, ts),
              !.last_ts = IF e.last_ts = NoneTs THEN ts ELSE MaxOf(e.last_ts, ts)]

\* update_ip_stats counting a received packet as one byte.
update_ip_stats_recv_one(stats, ip_from, ip_to, length, ts) ==
    LET s == IpStatsGet(stats, ip_from)
        stats1 == Put(stats, ip_from,
                      SeenTs([s EXCEPT !.sent_packets = @ + 1,
                                       !.sent_bytes = @ + Max0(length)], ts))
        r == IpStatsGet(stats1, ip_to)
    IN  Put(stats1, ip_to,
            SeenTs([r EXCEPT !.recv_packets = @ + 1,
                             !.recv_bytes = @ + 1], ts))

update_ip_stats(stats, ip_from, ip_to, length, ts) ==
    LET s == IpStatsGet(stats, ip_from)
        stats1 == Put(stats, ip_from,
                      SeenTs([s EXCEPT !.sent_packets = @ + 1,
                                       !.sent_bytes = @ + Max0(length)], ts))
        r == IpStatsGet(stats1, ip_to)
    IN  Put(stats1, ip_to,
            SeenTs([r EXCEPT !.recv_packets = @ + 1,
                             !.recv_bytes = @ + Max0(length)], ts))

\* update_ip_pair counting a packet as a_to_b when it comes from the second
\* address of the pair.
update_ip_pair_from_second(pairs, src_ip, dst_ip, length, ts) ==
    LET a == IF LexLess(dst_ip, src_ip) THEN dst_ip ELSE src_ip
        b == IF LexLess(dst_ip, src_ip) THEN src_ip ELSE dst_ip
        key == <<a, b>>
        entry == IF key \in DOMAIN pairs THEN pairs[key]
                 ELSE [ip1 |-> a, ip2 |-> b, packet_count |-> 0,
                       a_to_b_packets |-> 0, b_to_a_packets |-> 0,
                       a_to_b_bytes |-> 0, b_to_a_bytes |-> 0,
                       first_ts |-> ts, last_ts |-> ts]
        e1 == [entry EXCEPT !.packet_count = @ + 1,
                            !.first_ts = MinOf(@, ts),
                            !.last_ts = MaxOf(@, ts)]
        e2 == IF src_ip = b
              THEN [e1 EXCEPT !.a_to_b_packets = @ + 1, !.a_to_b_bytes = @ + Max0(length)]
              ELSE [e1 EXCEPT !.b_to_a_packets = @ + 1, !.b_to_a_bytes = @ + Max0(length)]
    IN  Put(pairs, key, e2)

update_ip_pair(pairs, src_ip, dst_ip, length, ts) ==
    LET a == IF LexLess(dst_ip, src_ip) THEN dst_ip ELSE src_ip
        b == IF LexLess(dst_ip, src_ip) THEN src_ip ELSE dst_ip
        key == <<a, b>>
        entry == IF key \in DOMAIN pairs THEN pairs[key]
                 ELSE [ip1 |-> a, ip2 |-> b, packet_count |-> 0,
                       a_to_b_packets |-> 0, b_to_a_packets |-> 0,
                       a_to_b_bytes |-> 0, b_to_a_bytes |-> 0,
                       first_ts |-> ts, last_ts |-> ts]
        e1 == [entry EXCEPT !.packet_count = @ + 1,
                            !.first_ts = MinOf(@, ts),
                            !.last_ts = MaxOf(@, ts)]
        e2 == IF src_ip = a
              THEN [e1 EXCEPT !.a_to_b_packets = @ + 1, !.a_to_b_bytes = @ + Max0(length)]
              ELSE [e1 EXCEPT !.b_to_a_packets = @ + 1, !.b_to_a_bytes = @ + Max0(length)]
    IN  Put(pairs, key, e2)

\* update_flag_stats starting the count of a flag again at every record.
update_flag_stats_restart(stats, flag_type) ==
    Put(stats, flag_type, 1)

update_flag_stats(stats, flag_type) ==
    Put(stats, flag_type, (IF flag_type \in DOMAIN stats THEN stats[flag_type] ELSE 0) + 1)

\* connection_map is a dict; its insertion order is the order of the scan, so
\* it is the sequence of its entries, each carrying its key.
KeyIndex(cmap, key) ==
    IF \E i \in 1..Len(cmap) : cmap[i].key = key
    THEN CHOOSE i \in 1..Len(cmap) : cmap[i].key = key
    ELSE 0

\* "if packet.get('src_port') and packet.get('dst_port') and s_ip and d_ip"
Attachable(packet) ==
    /\ packet.src_port # 0
    /\ packet.dst_port # 0
    /\ packet.src_ip # <<>>
    /\ packet.dst_ip # <<>>

\* Lines 397-420: st is [cmap, counter].
\* AttachPacket naming a new entry before it counts it.
AttachPacketStaleCounter(st, packet) ==
    IF ~Attachable(packet) THEN st
    ELSE LET connection_key == ConnectionKey(packet)
             known == KeyIndex(st.cmap, connection_key) # 0
             counter == IF known THEN st.counter ELSE st.counter + 1
             cmap1 == IF known THEN st.cmap
                      ELSE Append(st.cmap, [key |-> connection_key,
                                            packets |-> <<>>,
                                            flow_id |-> FlowIdText(st.counter),
                                            last_packet_time |-> packet.timestamp,
                                            has_fin_or_rst |-> FALSE])
             i == KeyIndex(cmap1, connection_key)
         IN  [cmap |-> [cmap1 EXCEPT
                          ![i].packets = Append(@, packet),
                          ![i].last_packet_time = packet.timestamp,
                          ![i].has_fin_or_rst =
                              @ \/ FlagSet(packet.flags, FIN) \/ FlagSet(packet.flags, RST)],
              counter |-> counter]

AttachPacket(st, packet) ==
    IF ~Attachable(packet) THEN st
    ELSE LET connection_key == ConnectionKey(packet)
             known == KeyIndex(st.cmap, connection_key) # 0
             counter == IF known THEN st.counter ELSE st.counter + 1
             cmap1 == IF known THEN st.cmap
                      ELSE Append(st.cmap, [key |-> connection_key,
                                            packets |-> <<>>,
                                            flow_id |-> FlowIdText(counter),
                                            last_packet_time |-> packet.timestamp,
                                            has_fin_or_rst |-> FALSE])
             i == KeyIndex(cmap1, connection_key)
         IN  [cmap |-> [cmap1 EXCEPT
                          ![i].packets = Append(@, packet),
                          ![i].last_packet_time = packet.timestamp,
                          ![i].has_fin_or_rst =
                              @ \/ FlagSet(packet.flags, FIN) \/ FlagSet(packet.flags, RST)],
              counter |-> counter]

RECURSIVE AttachAll(_, _)
AttachAll(st, chunk_records) ==
    IF chunk_records = <<>> THEN st
    ELSE AttachAll(AttachPacket(st, Head(chunk_records)), Tail(chunk_records))

\* AggregatePacket skipping the records that are attached to no connection.
AggregateAttachedOnly(agg, packet) ==
    IF ~Attachable(packet) THEN agg
    ELSE [ip_stats |-> update_ip_stats(agg.ip_stats, packet.src_ip, packet.dst_ip,
                                       packet.length, packet.timestamp),
          flag_stats |-> update_flag_stats(agg.flag_stats, packet.flag_type),
          ip_pair_map |-> update_ip_pair(agg.ip_pair_map, packet.src_ip, packet.dst_ip,
                                         packet.length, packet.timestamp)]

\* The three aggregates, agg is [ip_stats, flag_stats, ip_pair_map].
AggregatePacket(agg, packet) ==
    [ip_stats |-> update_ip_stats(agg.ip_stats, packet.src_ip, packet.dst_ip,
                                  packet.length, packet.timestamp),
     flag_stats |-> update_flag_stats(agg.flag_stats, packet.flag_type),
     ip_pair_map |-> update_ip_pair(agg.ip_pair_map, packet.src_ip, packet.dst_ip,
                                    packet.length, packet.timestamp)]

RECURSIVE AggregateAll(_, _)
AggregateAll(agg, chunk_records) ==
    IF chunk_records = <<>> THEN agg
    ELSE AggregateAll(AggregatePacket(agg, Head(chunk_records)), Tail(chunk_records))

RECURSIVE MaxTimestamp(_)
MaxTimestamp(records) ==
    IF Len(records) = 1 THEN records[1].timestamp
    ELSE MaxOf(records[1].timestamp, MaxTimestamp(Tail(records)))

\* HasTimedOut with a strict comparison.
HasTimedOutStrict(conn_data, latest_timestamp, flow_timeout_seconds) ==
    latest_timestamp - conn_data.last_packet_time > flow_timeout_seconds * MICROS_PER_SECOND

\* inactive_seconds >= flow_timeout_seconds, inactive_seconds being the
\* difference in microseconds divided by 1_000_000.
HasTimedOut(conn_data, latest_timestamp, flow_timeout_seconds) ==
    latest_timestamp - conn_data.last_packet_time >= flow_timeout_seconds * MICROS_PER_SECOND

\* IsComplete looking at the inactivity only.
IsCompleteTimeoutOnly(conn_data, latest_timestamp, flow_timeout_seconds) ==
    HasTimedOut(conn_data, latest_timestamp, flow_timeout_seconds)

IsComplete(conn_data, latest_timestamp, flow_timeout_seconds) ==
    conn_data.has_fin_or_rst \/ HasTimedOut(conn_data, latest_timestamp, flow_timeout_seconds)

\* CompleteFlow tagging every flow of a connection that timed out.
CompleteFlowTagTimedOut(conn_data, latest_timestamp, flow_timeout_seconds) ==
    LET flow == process_single_flow(conn_data.key, conn_data.packets, conn_data.flow_id)
    IN  IF HasTimedOut(conn_data, latest_timestamp, flow_timeout_seconds)
        THEN [flow EXCEPT !.completed_by_timeout = TRUE]
        ELSE flow

CompleteFlow(conn_data, latest_timestamp, flow_timeout_seconds) ==
    LET flow == process_single_flow(conn_data.key, conn_data.packets, conn_data.flow_id)
    IN  IF HasTimedOut(conn_data, latest_timestamp, flow_timeout_seconds)
           /\ ~conn_data.has_fin_or_rst
        THEN [flow EXCEPT !.completed_by_timeout = TRUE]
        ELSE flow

\* The scan: the completed flows, in the order of the table.
RECURSIVE CompletedFlows(_, _, _)
CompletedFlows(cmap, latest_timestamp, flow_timeout_seconds) ==
    IF cmap = <<>> THEN <<>>
    ELSE (IF IsComplete(Head(cmap), latest_timestamp, flow_timeout_seconds)
          THEN <<CompleteFlow(Head(cmap), latest_timestamp, flow_timeout_seconds)>>
          ELSE <<>>)
         \o CompletedFlows(Tail(cmap), latest_timestamp, flow_timeout_seconds)

\* RemainingConnections evicting only the connections that timed out.
RemainingConnectionsKeepClosed(cmap, latest_timestamp, flow_timeout_seconds) ==
    SelectSeq(cmap, LAMBDA c : ~HasTimedOut(c, latest_timestamp, flow_timeout_seconds))

\* "del connection_map[conn_key]" for every completed connection.
RemainingConnections(cmap, latest_timestamp, flow_timeout_seconds) ==
    SelectSeq(cmap, LAMBDA c : ~IsComplete(c, latest_timestamp, flow_timeout_seconds))

\* ------------------------------------------------------ write_flow_chunk
FlowSummary(flow, chunk_filename, local_idx) ==
    [id |-> flow.id, key |-> flow.key,
     initiator |-> flow.initiator, responder |-> flow.responder,
     initiatorPort |-> flow.initiatorPort, responderPort |-> flow.responderPort,
     state |-> flow.state, closeType |-> flow.closeType,
     startTime |-> flow.startTime, endTime |-> flow.endTime,
     totalPackets |-> flow.totalPackets, totalBytes |-> flow.totalBytes,
     establishmentComplete |-> flow.establishmentComplete,
     dataTransferStarted |-> flow.dataTransferStarted,
     closingStarted |-> flow.closingStarted,
     invalidReason |-> flow.invalidReason,
     ongoing |-> flow.ongoing,
     establishment_packets |-> Len(flow.establishment),
     data_transfer_packets |-> Len(flow.dataTransfer),
     closing_packets |-> Len(flow.closing),
     chunk_file |-> chunk_filename,
     chunk_index |-> local_idx]

\* write_flow_chunk naming every chunk file chunk_00000.json.
write_flow_chunk_same_file(out, flows_to_write, chunk_idx) ==
    [files |-> Append(out.files, [name |-> 0, flows |-> flows_to_write]),
     index |-> out.index \o
               [i \in 1..Len(flows_to_write) |-> FlowSummary(flows_to_write[i], 0, i - 1)]]

\* out is [files, index]: the chunk files written so far and flows_index.
\* A chunk file is named by its number (chunk_{idx:05d}.json); local_idx
\* counts from 0.
write_flow_chunk(out, flows_to_write, chunk_idx) ==
    [files |-> Append(out.files, [name |-> chunk_idx, flows |-> flows_to_write]),
     index |-> out.index \o
               [i \in 1..Len(flows_to_write) |-> FlowSummary(flows_to_write[i], chunk_idx, i - 1)]]

Prefix(s, n) == SubSeq(s, 1, MinOf(n, Len(s)))
Drop(s, n) == SubSeq(s, MinOf(n, Len(s)) + 1, Len(s))

\* FlushFull writing the newest chunk_size flows of the buffer first.
RECURSIVE FlushFullNewestFirst(_, _)
FlushFullNewestFirst(w, chunk_size) ==
    IF Len(w.pending) >= chunk_size
    THEN FlushFullNewestFirst(
                   [out |-> write_flow_chunk(w.out,
                                SubSeq(w.pending, Len(w.pending) - chunk_size + 1, Len(w.pending)),
                                w.counter),
                    pending |-> SubSeq(w.pending, 1, Len(w.pending) - chunk_size),
                    counter |-> w.counter + 1,
                    written |-> w.written + chunk_size],
                   chunk_size)
    ELSE w

\* FlushFull counting the chunks written instead of the flows.
RECURSIVE FlushFullCountingChunks(_, _)
FlushFullCountingChunks(w, chunk_size) ==
    IF Len(w.pending) >= chunk_size
    THEN FlushFullCountingChunks(
                   [out |-> write_flow_chunk(w.out, Prefix(w.pending, chunk_size), w.counter),
                    pending |-> Drop(w.pending, chunk_size),
                    counter |-> w.counter + 1,
                    written |-> w.written + 1],
                   chunk_size)
    ELSE w

\* "while len(all_completed_flows) >= chunk_size": w is [out, pending, counter, written].
RECURSIVE FlushFull(_, _)
FlushFull(w, chunk_size) ==
    IF Len(w.pending) >= chunk_size
    THEN FlushFull([out |-> write_flow_chunk(w.out, Prefix(w.pending, chunk_size), w.counter),
                    pending |-> Drop(w.pending, chunk_size),
                    counter |-> w.counter + 1,
                    written |-> w.written + Len(Prefix(w.pending, chunk_size))],
                   chunk_size)
    ELSE w

\* FlushAll writing full chunks only.
FlushAllFullOnly(w, chunk_size) == FlushFull(w, chunk_size)

\* "while all_completed_flows" of the end of the run.
RECURSIVE FlushAll(_, _)
FlushAll(w, chunk_size) ==
    IF w.pending # <<>>
    THEN FlushAll([out |-> write_flow_chunk(w.out, Prefix(w.pending, chunk_size), w.counter),
                   pending |-> Drop(w.pending, Len(Prefix(w.pending, chunk_size))),
                   counter |-> w.counter + 1,
                   written |-> w.written + Len(Prefix(w.pending, chunk_size))],
                  chunk_size)
    ELSE w

\* ---------------------------------------------------- generate_time_bins
\* The timestamps are integers and bin_width is (max_ts - min_ts) / num_bins,
\* so "bin_start <= ts" is i * (max_ts - min_ts) <= num_bins * (ts - min_ts)
\* and int(bin_start) is min_ts + (i * (max_ts - min_ts)) \div num_bins.
NumBins == 100

LeastOf(timestamps) ==
    CHOOSE t \in {timestamps[j] : j \in 1..Len(timestamps)} :
        \A j \in 1..Len(timestamps) : t <= timestamps[j]

GreatestOf(timestamps) ==
    CHOOSE t \in {timestamps[j] : j \in 1..Len(timestamps)} :
        \A j \in 1..Len(timestamps) : t >= timestamps[j]

generate_time_bins(timestamps, num_bins) ==
    IF timestamps = <<>> THEN <<>>
    ELSE LET min_ts == LeastOf(timestamps)
             max_ts == GreatestOf(timestamps)
             span == max_ts - min_ts
         IN  IF min_ts = max_ts
             THEN <<[bin |-> 0, start |-> min_ts, end |-> max_ts, count |-> Len(timestamps)]>>
             ELSE [k \in 1..num_bins |->
                     [bin |-> k - 1,
                      start |-> min_ts + ((k - 1) * span) \div num_bins,
                      end |-> min_ts + (k * span) \div num_bins,
                      count |-> Cardinality({j \in 1..Len(timestamps) :
                                    /\ (k - 1) * span <= num_bins * (timestamps[j] - min_ts)
                                    /\ num_bins * (timestamps[j] - min_ts) < k * span})]]

\* ---------------------------------------------------------------- state
VARIABLES
    pc,                   \* "reading" the input, or "done" after the end of the run
    connection_map,       \* open connections, in insertion order
    ip_stats,
    flag_stats,
    ip_pair_map,
    flow_counter,
    all_completed_flows,  \* completed flows not yet written
    chunk_files,          \* flows/chunk_NNNNN.json, in the order written
    flows_index,
    flow_chunk_counter,
    total_flows_written,
    tcp_packets,
    latest_timestamp,     \* the clock of the last completion scan
    routed,               \* history: every record passed to detect_tcp_flows_incremental
    all_timestamps,       \* the timestamp of every record read
    bins,                 \* indices/bins.json, <<>> until it is written
    fsm_packets,          \* one connection's buffer (state-machine specification)
    fsm_flow              \* <<>>, or <<flow>> once the buffer was processed

vars == <<pc, connection_map, ip_stats, flag_stats, ip_pair_map, flow_counter,
          all_completed_flows, chunk_files, flows_index, flow_chunk_counter,
          total_flows_written, tcp_packets, latest_timestamp, routed,
          all_timestamps, bins, fsm_packets, fsm_flow>>

trackerVars == <<pc, connection_map, ip_stats, flag_stats, ip_pair_map, flow_counter,
                 all_completed_flows, chunk_files, flows_index, flow_chunk_counter,
                 total_flows_written, tcp_packets, latest_timestamp, routed,
                 all_timestamps, bins>>

EmptyMap == [x \in {} |-> 0]

\* ----------------------------------------------------------- the input
\* Addresses "10", "9" and "11": "10" < "11" < "9" as strings.
IPA == <<49, 48>>
IPB == <<57>>
IPC == <<49, 49>>

Record(ts, src_ip, src_port, dst_ip, dst_port, flags, seq_num, ack_num, length) ==
    [timestamp |-> ts, src_ip |-> src_ip, dst_ip |-> dst_ip,
     src_port |-> src_port, dst_port |-> dst_port,
     flags |-> flags, flag_type |-> classify_tcp_flags(flags),
     seq_num |-> PyInt(seq_num), ack_num |-> PyInt(ack_num), length |-> length]

WithUid(record, uid) ==
    [f \in DOMAIN record \cup {"uid"} |-> IF f = "uid" THEN uid ELSE record[f]]

Seconds(n) == n * MICROS_PER_SECOND
T0 == Seconds(0)
T10 == Seconds(10)
T15 == Seconds(15)

\* Records of the streamed input: connection IPA:1000/IPB:80 (a SYN, a
\* SYN+ACK acknowledging the wrong number, a pure ACK, a FIN+ACK with
\* payload), a second connection IPC:2000/IPB:80, and a record whose source
\* port was defaulted to 0, at timestamps of 0, 10 and 15 seconds.
TrackerRecords ==
    { Record(T0, IPA, 1000, IPB, 80, SYN, 100, 0, 0),
      Record(T10, IPA, 1000, IPB, 80, SYN, 100, 0, 0),
      Record(T10, IPB, 80, IPA, 1000, SYN + ACK, 200, 999, 0),
      Record(T0, IPA, 1000, IPB, 80, ACK, 101, 201, 0),
      Record(T10, IPA, 1000, IPB, 80, ACK, 101, 201, 0),
      Record(T10, IPB, 80, IPA, 1000, FIN + ACK, 201, 101, 2),
      Record(T15, IPB, 80, IPA, 1000, FIN + ACK, 201, 101, 2),
      Record(T0, IPC, 2000, IPB, 80, PSH + ACK, 7, 7, 3),
      Record(T15, IPC, 2000, IPB, 80, PSH + ACK, 7, 7, 3),
      Record(T10, IPA, 0, IPB, 80, ACK, 5, 5, 1) }

\* A list of n records from S, given uids from + 1 .. from + n.
Chunks(S, n, from) ==
    {[i \in 1..n |-> WithUid(f[i], from + i)] : f \in [1..n -> S]}

\* --------------------------------------------- process_tcp_data_chunked
Init ==
    /\ pc = "reading"
    /\ connection_map = <<>>
    /\ ip_stats = EmptyMap
    /\ flag_stats = EmptyMap
    /\ ip_pair_map = EmptyMap
    /\ flow_counter = 0
    /\ all_completed_flows = <<>>
    /\ chunk_files = <<>>
    /\ flows_index = <<>>
    /\ flow_chunk_counter = 0
    /\ total_flows_written = 0
    /\ tcp_packets = 0
    /\ latest_timestamp = 0
    /\ routed = <<>>
    /\ all_timestamps = <<>>
    /\ bins = <<>>
    /\ fsm_packets = <<>>
    /\ fsm_flow = <<>>

\* One pass of "for df_chunk in csv_iterator" with a non-empty tcp_chunk:
\* detect_tcp_flows_incremental, then the writing of the full chunks.
IngestChunk(tcp_chunk) ==
    LET agg == AggregateAll([ip_stats |-> ip_stats, flag_stats |-> flag_stats,
                             ip_pair_map |-> ip_pair_map], tcp_chunk)
        st == AttachAll([cmap |-> connection_map, counter |-> flow_counter], tcp_chunk)
        latest == MaxTimestamp(tcp_chunk)
        completed_flows == CompletedFlows(st.cmap, latest, FlowTimeoutSeconds)
        w == FlushFull([out |-> [files |-> chunk_files, index |-> flows_index],
                        pending |-> all_completed_flows \o completed_flows,
                        counter |-> flow_chunk_counter,
                        written |-> total_flows_written], ChunkSize)
    IN  /\ pc = "reading"
        /\ tcp_packets' = tcp_packets + Len(tcp_chunk)
        /\ routed' = routed \o tcp_chunk
        /\ all_timestamps' = all_timestamps \o [i \in 1..Len(tcp_chunk) |-> tcp_chunk[i].timestamp]
        /\ ip_stats' = agg.ip_stats
        /\ flag_stats' = agg.flag_stats
        /\ ip_pair_map' = agg.ip_pair_map
        /\ flow_counter' = st.counter
        /\ latest_timestamp' = latest
        /\ connection_map' = RemainingConnections(st.cmap, latest, FlowTimeoutSeconds)
        /\ all_completed_flows' = w.pending
        /\ chunk_files' = w.out.files
        /\ flows_index' = w.out.index
        /\ flow_chunk_counter' = w.counter
        /\ total_flows_written' = w.written
        /\ pc' = "reading"
        /\ UNCHANGED <<bins, fsm_packets, fsm_flow>>

Ingest ==
    \E n \in 1..MaxBatch :
        /\ Len(routed) + n <= MaxPackets
        /\ \E tcp_chunk \in Chunks(TrackerRecords, n, Len(routed)) : IngestChunk(tcp_chunk)

\* "Finalize: process all remaining active flows", which sorts each buffer in
\* place and leaves the table as it is, "Write any remaining flows", and
\* "Generate and save time bins".
RECURSIVE FinalFlows(_)
FinalFlows(cmap) ==
    IF cmap = <<>> THEN <<>>
    ELSE <<process_single_flow(Head(cmap).key, Head(cmap).packets, Head(cmap).flow_id)>>
         \o FinalFlows(Tail(cmap))

Finalize ==
    LET w == FlushAll([out |-> [files |-> chunk_files, index |-> flows_index],
                       pending |-> all_completed_flows \o FinalFlows(connection_map),
                       counter |-> flow_chunk_counter,
                       written |-> total_flows_written], ChunkSize)
    IN  /\ pc = "reading"
        /\ pc' = "done"
        /\ connection_map' = [i \in 1..Len(connection_map) |->
                                [connection_map[i] EXCEPT !.packets = SortByTs(@)]]
        /\ all_completed_flows' = w.pending
        /\ chunk_files' = w.out.files
        /\ flows_index' = w.out.index
        /\ flow_chunk_counter' = w.counter
        /\ total_flows_written' = w.written
        /\ bins' = generate_time_bins(all_timestamps, NumBins)
        /\ UNCHANGED <<ip_stats, flag_stats, ip_pair_map, flow_counter, tcp_packets,
                       latest_timestamp, routed, all_timestamps, fsm_packets, fsm_flow>>

Next == Ingest \/ Finalize

Spec == Init /\ [][Next]_vars

\* The input is finite: the loop over the batches ends and the run goes on
\* to its end, the step of Finalize (the only one that changes pc, and
\* possible whenever pc is "reading").
EndOfInput == pc = "reading" /\ pc' = "done"

SpecLive == Init /\ [][Next]_vars /\ WF_pc(EndOfInput)

\* ------------------------------------------- the flow state machine alone
\* One connection (IPA:1000, IPB:80) whose records arrive in capture order
\* (the timestamp is the row number) and are buffered, then handed to
\* process_single_flow, as the end of the run does for an open connection.
FsmRecords(ts) ==
    { Record(ts, IPA, 1000, IPB, 80, SYN, 100, 0, 0),
      Record(ts, IPB, 80, IPA, 1000, SYN + ACK, 200, 101, 0),
      Record(ts, IPB, 80, IPA, 1000, SYN + ACK, 200, 100, 0),
      Record(ts, IPA, 1000, IPB, 80, ACK, 101, 201, 0),
      Record(ts, IPA, 1000, IPB, 80, ACK, 101, 200, 0),
      Record(ts, IPB, 80, IPA, 1000, ACK, 201, 101, 4),
      Record(ts, IPA, 1000, IPB, 80, FIN + ACK, 101, 201, 0),
      Record(ts, IPB, 80, IPA, 1000, FIN + ACK, 201, 101, 0),
      Record(ts, IPB, 80, IPA, 1000, RST, 201, 0, 0),
      Record(ts, IPA, 1000, IPB, 80, RST + ACK, 101, 201, 0) }

FsmArrive ==
    /\ fsm_flow = <<>>
    /\ Len(fsm_packets) < MaxFsmLen
    /\ \E r \in FsmRecords(Len(fsm_packets)) :
          fsm_packets' = Append(fsm_packets, WithUid(r, Len(fsm_packets) + 1))
    /\ UNCHANGED <<fsm_flow, trackerVars>>

FsmProcess ==
    /\ fsm_flow = <<>>
    /\ fsm_packets # <<>>
    /\ fsm_flow' = <<process_single_flow(ConnectionKey(fsm_packets[1]), fsm_packets, FlowIdText(1))>>
    /\ fsm_packets' = SortByTs(fsm_packets)
    /\ UNCHANGED trackerVars

NextFsm == FsmArrive \/ FsmProcess

SpecFsm == Init /\ [][NextFsm]_vars

\* The same for a connection whose buffer already holds a validated
\* handshake (SYN, SYN+ACK, ACK) and receives up to MaxTail further records.
HandshakeRecords ==
    << WithUid(Record(0, IPA, 1000, IPB, 80, SYN, 100, 0, 0), 1),
       WithUid(Record(1, IPB, 80, IPA, 1000, SYN + ACK, 200, 101, 0), 2),
       WithUid(Record(2, IPA, 1000, IPB, 80, ACK, 101, 201, 0), 3) >>

InitEstablished ==
    /\ pc = "reading"
    /\ connection_map = <<>>
    /\ ip_stats = EmptyMap
    /\ flag_stats = EmptyMap
    /\ ip_pair_map = EmptyMap
    /\ flow_counter = 0
    /\ all_completed_flows = <<>>
    /\ chunk_files = <<>>
    /\ flows_index = <<>>
    /\ flow_chunk_counter = 0
    /\ total_flows_written = 0
    /\ tcp_packets = 0
    /\ latest_timestamp = 0
    /\ routed = <<>>
    /\ all_timestamps = <<>>
    /\ bins = <<>>
    /\ fsm_packets = HandshakeRecords
    /\ fsm_flow = <<>>

FsmArriveEstablished ==
    /\ fsm_flow = <<>>
    /\ Len(fsm_packets) < Len(HandshakeRecords) + MaxTail
    /\ \E r \in FsmRecords(Len(fsm_packets)) :
          fsm_packets' = Append(fsm_packets, WithUid(r, Len(fsm_packets) + 1))
    /\ UNCHANGED <<fsm_flow, trackerVars>>

NextEstablished == FsmArriveEstablished \/ FsmProcess

SpecEstablished == InitEstablished /\ [][NextEstablished]_vars

\* The same for sequence numbers around 2^32: U32Max is 2^32 - 1 and
\* TwoTo32 is 2^32, both read from the input as plain Python ints.
U32Max == <<Base - 1, Base - 1>>
TwoTo32 == <<Base, 0>>

WideRecord(ts, src_ip, src_port, dst_ip, dst_port, flags, seq_num, ack_num) ==
    [Record(ts, src_ip, src_port, dst_ip, dst_port, flags, 0, 0, 0)
        EXCEPT !.seq_num = seq_num, !.ack_num = ack_num]

WrapRecords(ts) ==
    { WideRecord(ts, IPA, 1000, IPB, 80, SYN, U32Max, PyInt(0)),
      WideRecord(ts, IPB, 80, IPA, 1000, SYN + ACK, U32Max, TwoTo32),
      WideRecord(ts, IPB, 80, IPA, 1000, SYN + ACK, U32Max, PyInt(0)),
      WideRecord(ts, IPB, 80, IPA, 1000, SYN + ACK, PyInt(200), TwoTo32),
      WideRecord(ts, IPA, 1000, IPB, 80, ACK, TwoTo32, TwoTo32),
      WideRecord(ts, IPA, 1000, IPB, 80, ACK, TwoTo32, PyInt(0)),
      WideRecord(ts, IPA, 1000, IPB, 80, ACK, PyInt(0), TwoTo32),
      WideRecord(ts, IPA, 1000, IPB, 80, ACK, PyInt(0), PyInt(0)) }

FsmArriveWrap ==
    /\ fsm_flow = <<>>
    /\ Len(fsm_packets) < MaxFsmLen
    /\ \E r \in WrapRecords(Len(fsm_packets)) :
          fsm_packets' = Append(fsm_packets, WithUid(r, Len(fsm_packets) + 1))
    /\ UNCHANGED <<fsm_flow, trackerVars>>

NextWrap == FsmArriveWrap \/ FsmProcess

SpecWrap == Init /\ [][NextWrap]_vars

\* The same for a connection that sees connection requests from both
\* endpoints and with different sequence numbers, among other packets.
SynRecords(ts) ==
    { Record(ts, IPA, 1000, IPB, 80, SYN, 100, 0, 0),
      Record(ts, IPB, 80, IPA, 1000, SYN, 300, 0, 0),
      Record(ts, IPA, 1000, IPB, 80, SYN + RST, 500, 0, 0),
      Record(ts, IPB, 80, IPA, 1000, SYN + ACK, 200, 101, 0),
      Record(ts, IPA, 1000, IPB, 80, ACK, 101, 201, 0),
      Record(ts, IPA, 1000, IPB, 80, FIN + ACK, 101, 201, 0),
      Record(ts, IPB, 80, IPA, 1000, RST, 201, 0, 0) }

FsmArriveSyn ==
    /\ fsm_flow = <<>>
    /\ Len(fsm_packets) < MaxFsmLen
    /\ \E r \in SynRecords(Len(fsm_packets)) :
          fsm_packets' = Append(fsm_packets, WithUid(r, Len(fsm_packets) + 1))
    /\ UNCHANGED <<fsm_flow, trackerVars>>

NextSyn == FsmArriveSyn \/ FsmProcess

SpecSyn == Init /\ [][NextSyn]_vars

\* ----------------------------------------------------- detect_tcp_flows
\* The one-shot detector. "Group packets by connection": connection_map is
\* a dict of packet lists, here the sequence of its [key, packets] entries
\* in insertion order.
\* GroupPacket keying a packet by its direction.
GroupPacketDirected(cmap, packet) ==
    IF ~Attachable(packet) THEN cmap
    ELSE LET connection_key == ConnectionKeyDirected(packet)
             cmap1 == IF KeyIndex(cmap, connection_key) # 0 THEN cmap
                      ELSE Append(cmap, [key |-> connection_key, packets |-> <<>>])
         IN  [cmap1 EXCEPT ![KeyIndex(cmap1, connection_key)].packets = Append(@, packet)]

GroupPacket(cmap, packet) ==
    IF ~Attachable(packet) THEN cmap
    ELSE LET connection_key == ConnectionKey(packet)
             cmap1 == IF KeyIndex(cmap, connection_key) # 0 THEN cmap
                      ELSE Append(cmap, [key |-> connection_key, packets |-> <<>>])
         IN  [cmap1 EXCEPT ![KeyIndex(cmap1, connection_key)].packets = Append(@, packet)]

RECURSIVE GroupAll(_, _)
GroupAll(cmap, records) ==
    IF records = <<>> THEN cmap
    ELSE GroupAll(GroupPacket(cmap, Head(records)), Tail(records))

\* "Process each connection": flow_counter counts the connections in the
\* order of the dict; the body of the loop is the text of
\* process_single_flow, sort included.
RECURSIVE ProcessEachConnection(_, _)
ProcessEachConnection(cmap, flow_counter0) ==
    IF cmap = <<>> THEN <<>>
    ELSE <<process_single_flow(Head(cmap).key, Head(cmap).packets,
                               FlowIdText(flow_counter0 + 1))>>
         \o ProcessEachConnection(Tail(cmap), flow_counter0 + 1)

\* "Build aggregates from all TCP records", with its own update functions,
\* which have the text of those of detect_tcp_flows_incremental.
BuildAggregates(records) ==
    AggregateAll([ip_stats |-> EmptyMap, flag_stats |-> EmptyMap, ip_pair_map |-> EmptyMap],
                 records)

detect_tcp_flows(records) ==
    [flows |-> ProcessEachConnection(GroupAll(<<>>, records), 0),
     ip_pair_map |-> BuildAggregates(records).ip_pair_map,
     ip_stats |-> BuildAggregates(records).ip_stats,
     flag_stats |-> BuildAggregates(records).flag_stats]

\* The run that reads its whole input as one ingestion batch.
IngestWhole ==
    /\ routed = <<>>
    /\ \E n \in 1..MaxPackets :
          \E tcp_chunk \in Chunks(TrackerRecords, n, 0) : IngestChunk(tcp_chunk)

NextOneBatch == IngestWhole \/ Finalize

SpecOneBatch == Init /\ [][NextOneBatch]_vars

\* ------------------------------------------------ the keying of packets
\* The same run over records between every ordered pair of the endpoints
\* IPA:80, IPA:1000, IPB:80, IPB:1000, all at 0 s and none closing, so that
\* every connection stays in the table until the end of the run.
KeyEndpoints == {<<ip, port>> : ip \in {IPA, IPB}, port \in {80, 1000}}

KeyRecords ==
    {Record(T0, from[1], from[2], to[1], to[2], ACK, 1, 1, 1) : from \in KeyEndpoints, to \in KeyEndpoints}

IngestKeyed ==
    \E n \in 1..MaxBatch :
        /\ Len(routed) + n <= MaxKeyPackets
        /\ \E tcp_chunk \in Chunks(KeyRecords, n, Len(routed)) : IngestChunk(tcp_chunk)

NextKey == IngestKeyed \/ Finalize

SpecKey == Init /\ [][NextKey]_vars

\* ======================================================= properties
RECURSIVE FlowsOfFiles(_)
FlowsOfFiles(files) ==
    IF files = <<>> THEN <<>> ELSE Head(files).flows \o FlowsOfFiles(Tail(files))

\* Every flow the run has produced so far: written, then pending.
EmittedFlows == FlowsOfFiles(chunk_files) \o all_completed_flows

Uids(pkts) == {pkts[k].uid : k \in 1..Len(pkts)}
HasFinOrRst(pkts) ==
    \E k \in 1..Len(pkts) : FlagSet(pkts[k].flags, FIN) \/ FlagSet(pkts[k].flags, RST)

RECURSIVE SumOver(_, _, _)
SumOver(m, keys, field) ==
    IF keys = {} THEN 0
    ELSE LET k == CHOOSE x \in keys : TRUE
         IN  m[k][field] + SumOver(m, keys \ {k}, field)

RECURSIVE SumCounts(_, _)
SumCounts(m, keys) ==
    IF keys = {} THEN 0
    ELSE LET k == CHOOSE x \in keys : TRUE
         IN  m[k] + SumCounts(m, keys \ {k})

PhaseEntries(flow) == flow.establishment \o flow.dataTransfer \o flow.closing
PhaseCount(entries, phase) == Cardinality({k \in 1..Len(entries) : entries[k].phase = phase})

IsSyn(p) == FlagSet(p.flags, SYN) /\ ~FlagSet(p.flags, ACK) /\ ~FlagSet(p.flags, RST)
IsSynAck(p) == FlagSet(p.flags, SYN) /\ FlagSet(p.flags, ACK) /\ ~FlagSet(p.flags, RST)
IsAck(p) ==
    /\ FlagSet(p.flags, ACK)
    /\ ~FlagSet(p.flags, SYN) /\ ~FlagSet(p.flags, FIN) /\ ~FlagSet(p.flags, RST)
IsPureAck(p) == IsAck(p) /\ ~FlagSet(p.flags, PSH)
IsFin(p) == FlagSet(p.flags, FIN) /\ ~FlagSet(p.flags, SYN) /\ ~FlagSet(p.flags, RST)

\* The first three packets are SYN(seq=s) from A to B, SYN+ACK(seq=t,
\* ack=s+1) from B to A and pure ACK(seq=s+1, ack=t+1) from A to B.
Handshake(pkts) ==
    /\ Len(pkts) >= 3
    /\ IsSyn(pkts[1]) /\ ~FlagSet(pkts[1].flags, FIN)
    /\ IsSynAck(pkts[2]) /\ ~FlagSet(pkts[2].flags, FIN)
    /\ pkts[2].src_ip = pkts[1].dst_ip /\ pkts[2].src_port = pkts[1].dst_port
    /\ pkts[2].dst_ip = pkts[1].src_ip /\ pkts[2].dst_port = pkts[1].src_port
    /\ pkts[2].ack_num = PlusOne(pkts[1].seq_num)
    /\ IsPureAck(pkts[3])
    /\ pkts[3].src_ip = pkts[1].src_ip /\ pkts[3].src_port = pkts[1].src_port
    /\ pkts[3].dst_ip = pkts[1].dst_ip /\ pkts[3].dst_port = pkts[1].dst_port
    /\ pkts[3].seq_num = PlusOne(pkts[1].seq_num)
    /\ pkts[3].ack_num = PlusOne(pkts[2].seq_num)

\* The flow as the loop leaves it after the first n packets of the list.
AfterPackets(pkts, n) ==
    RunLoop(NewFlow(ConnectionKey(pkts[1]), pkts, FlowIdText(1)), SubSeq(pkts, 1, n), 1)

\* C1 (as claimed): at the end of the run every record that was attached to a
\* connection is in the packet list of exactly one output flow.
C1_EveryPacketInExactlyOneFlow ==
    pc = "done" =>
        \A i \in 1..Len(routed) :
            Attachable(routed[i]) =>
                Cardinality({j \in 1..Len(EmittedFlows) :
                                routed[i].uid \in Uids(EmittedFlows[j].packets)}) = 1

\* C2: a connection that is exactly a handshake (SYN, SYN+ACK acknowledging
\* seq+1, pure ACK with the matching numbers) yields one flow: established
\* inside the loop, establishmentComplete, no invalid reason, initiator the
\* SYN's source, and finally ongoing with close type open.
C2_HandshakeScenario ==
    (fsm_flow # <<>> /\ Len(fsm_packets) = 3 /\ Handshake(fsm_packets)) =>
        /\ Len(fsm_flow) = 1
        /\ AfterPackets(fsm_packets, 3).state = "established"
        /\ fsm_flow[1].establishmentComplete
        /\ fsm_flow[1].invalidReason = "none"
        /\ fsm_flow[1].initiator = fsm_packets[1].src_ip
        /\ fsm_flow[1].initiatorPort = fsm_packets[1].src_port
        /\ fsm_flow[1].responder = fsm_packets[1].dst_ip
        /\ fsm_flow[1].responderPort = fsm_packets[1].dst_port
        /\ fsm_flow[1].state = "ongoing"
        /\ fsm_flow[1].closeType = "open"

C2_Witness ==
    /\ fsm_flow # <<>> /\ Len(fsm_packets) = 3 /\ Handshake(fsm_packets)
    /\ fsm_flow[1].state = "ongoing"
    /\ Len(fsm_flow[1].establishment) = 3

\* The loop is establishing when it reaches packet i, a SYN+ACK whose
\* ack_num is not the expected one.
BadSynAckAt(pkts, i) ==
    /\ AfterPackets(pkts, i - 1).state = "establishing"
    /\ IsSynAck(pkts[i])
    /\ pkts[i].ack_num # AfterPackets(pkts, i - 1).expectedAckNum

\* C3: when an establishing flow receives a SYN+ACK whose ack_num is not the
\* expected SYN seq+1, the flow ends invalid, reason invalid_synack, close
\* type invalid, and no packet at or after that SYN+ACK is in a phase list.
C3_InvalidSynAck ==
    fsm_flow # <<>> =>
        \A i \in 1..Len(fsm_packets) :
            BadSynAckAt(fsm_packets, i) =>
                /\ fsm_flow[1].state = "invalid"
                /\ fsm_flow[1].invalidReason = "invalid_synack"
                /\ fsm_flow[1].closeType = "invalid"
                /\ \A e \in 1..Len(PhaseEntries(fsm_flow[1])) :
                       PhaseEntries(fsm_flow[1])[e].packet.uid < fsm_packets[i].uid

C3_Witness ==
    /\ fsm_flow # <<>>
    /\ \E i \in 1..Len(fsm_packets) : i < Len(fsm_packets) /\ BadSynAckAt(fsm_packets, i)
    /\ fsm_flow[1].invalidReason = "invalid_synack"

\* C4 (as claimed): a validated handshake, then a FIN from either side, then
\* an ACK, ends closed with close type graceful.
C4_GracefulClose ==
    ( /\ fsm_flow # <<>>
      /\ Len(fsm_packets) = 5
      /\ Handshake(fsm_packets)
      /\ IsFin(fsm_packets[4])
      /\ IsAck(fsm_packets[5]) ) =>
        fsm_flow[1].state = "closed" /\ fsm_flow[1].closeType = "graceful"

RoutedKeys == {ConnectionKey(routed[i]) : i \in {k \in 1..Len(routed) : Attachable(routed[k])}}
KeyPackets(key) == SelectSeq(routed, LAMBDA p : Attachable(p) /\ ConnectionKey(p) = key)

\* The packets of a buffer or flow are one at 0 s and then one at 10 s, in
\* this order of arrival, none with FIN or RST.
ZeroThenTen(pkts) ==
    /\ Len(pkts) = 2
    /\ \E a, b \in 1..2 :
          /\ pkts[a].timestamp = T0 /\ pkts[b].timestamp = T10
          /\ pkts[a].uid < pkts[b].uid
    /\ ~HasFinOrRst(pkts)

NewFlows == {f \in {EmittedFlows'[j] : j \in 1..Len(EmittedFlows')} :
                \A j \in 1..Len(EmittedFlows) : EmittedFlows[j] # f}

C6_EstablishedAfterSynAndSynAck ==
    (fsm_flow # <<>> /\ fsm_flow[1].establishmentComplete) =>
        LET est == fsm_flow[1].establishment
        IN  /\ PhaseCount(est, "syn") = 1
            /\ PhaseCount(est, "syn_ack") = 1
            /\ \A a, b \in 1..Len(est) :
                   (est[a].phase \in {"syn", "syn_ack"} /\ est[b].phase = "ack") => a < b

\* C7 (as claimed): totalPackets is the length of the flow's own packet list
\* and totalBytes the sum of the lengths over that list, for every flow.
C7_TotalsMatchPacketList ==
    \A j \in 1..Len(EmittedFlows) :
        /\ EmittedFlows[j].totalPackets = Len(EmittedFlows[j].packets)
        /\ EmittedFlows[j].totalBytes = SumLength(EmittedFlows[j].packets)

NonDecreasing(pkts) ==
    \A a, b \in 1..Len(pkts) :
        a < b => /\ pkts[a].timestamp <= pkts[b].timestamp
                 /\ (pkts[a].timestamp = pkts[b].timestamp => pkts[a].uid < pkts[b].uid)

PhasePackets(entries) == [k \in 1..Len(entries) |-> entries[k].packet]

\* C8: the packet list of every flow is non-decreasing in timestamp (equal
\* timestamps in arrival order), and so is every phase list, the state
\* machine having taken the packets in that order, whatever the order of
\* arrival.
C8_PacketsInTimestampOrder ==
    \A j \in 1..Len(EmittedFlows) :
        /\ NonDecreasing(EmittedFlows[j].packets)
        /\ NonDecreasing(PhasePackets(EmittedFlows[j].establishment))
        /\ NonDecreasing(PhasePackets(EmittedFlows[j].dataTransfer))
        /\ NonDecreasing(PhasePackets(EmittedFlows[j].closing))

C8_Witness ==
    \E j \in 1..Len(EmittedFlows) :
        \E a, b \in 1..Len(EmittedFlows[j].packets) :
            /\ a < b
            /\ EmittedFlows[j].packets[a].uid > EmittedFlows[j].packets[b].uid
            /\ EmittedFlows[j].packets[a].timestamp < EmittedFlows[j].packets[b].timestamp

\* C9: the sent bytes summed over all addresses, and the received bytes
\* summed over all addresses, both equal the summed length of all records
\* that went through the aggregation.
C9_BytesConserved ==
    /\ SumOver(ip_stats, DOMAIN ip_stats, "sent_bytes") = SumLength(routed)
    /\ SumOver(ip_stats, DOMAIN ip_stats, "recv_bytes") = SumLength(routed)

C9_Witness ==
    /\ Len(routed) >= 2
    /\ SumLength(routed) > Len(routed)
    /\ Cardinality(DOMAIN ip_stats) >= 3

\* C10: every record updates each aggregate once, attached to a connection
\* or not and whatever its flow turns out to be: sent packets, received
\* packets, flag counts and pair packet counts all sum to the number of
\* records aggregated.
C10_EachPacketCountedOnce ==
    /\ SumOver(ip_stats, DOMAIN ip_stats, "sent_packets") = Len(routed)
    /\ SumOver(ip_stats, DOMAIN ip_stats, "recv_packets") = Len(routed)
    /\ SumCounts(flag_stats, DOMAIN flag_stats) = Len(routed)
    /\ SumOver(ip_pair_map, DOMAIN ip_pair_map, "packet_count") = Len(routed)

C10_Witness ==
    /\ \E i \in 1..Len(routed) : ~Attachable(routed[i])
    /\ \E j \in 1..Len(EmittedFlows) : EmittedFlows[j].state = "invalid"

\* q goes from p's destination to p's source.
Reverse(p, q) ==
    /\ q.src_ip = p.dst_ip /\ q.src_port = p.dst_port
    /\ q.dst_ip = p.src_ip /\ q.dst_port = p.src_port

\* C11: for all endpoint pairs the key of a packet from A:pA to B:pB is the
\* key of a packet from B:pB to A:pA, and two such packets are in the buffer
\* of one and the same entry of the connection table.
C11_KeyCommutative ==
    \A i, j \in 1..Len(routed) :
        Reverse(routed[i], routed[j]) =>
            /\ ConnectionKey(routed[i]) = ConnectionKey(routed[j])
            /\ pc = "reading" =>
                  /\ \E e \in 1..Len(connection_map) :
                        {routed[i].uid, routed[j].uid} \subseteq Uids(connection_map[e].packets)
                  /\ Cardinality({e \in 1..Len(connection_map) :
                        {routed[i].uid, routed[j].uid} \cap Uids(connection_map[e].packets) # {}}) = 1

C11_Witness ==
    /\ pc = "reading"
    /\ \E i, j \in 1..Len(routed) :
          /\ i < j
          /\ Reverse(routed[i], routed[j])
          /\ routed[i].src_ip # routed[i].dst_ip
          /\ routed[i].src_port # routed[i].dst_port
          /\ ConnectionKey(routed[i]) # ConnectionKeyDirected(routed[i])
          /\ Len(connection_map) = 1

\* What the claim compares of a flow: key, packet membership, final state
\* and close type.
FlowView(flows) ==
    {[key |-> flows[j].key, packets |-> Uids(flows[j].packets),
      state |-> flows[j].state, closeType |-> flows[j].closeType] : j \in 1..Len(flows)}

\* The flows of the run that reads the same records as one ingestion batch:
\* one scan, then the end of the run.
OneBatchFlows(records) ==
    LET st == AttachAll([cmap |-> <<>>, counter |-> 0], records)
        latest == MaxTimestamp(records)
    IN  CompletedFlows(st.cmap, latest, FlowTimeoutSeconds)
        \o FinalFlows(RemainingConnections(st.cmap, latest, FlowTimeoutSeconds))

\* C13 (as claimed): however the records were split into ingestion batches,
\* the finished run has the flows of the run that read them as one batch:
\* the same keys, packet membership, final states and close types.
C13_BatchSplitIndependent ==
    (pc = "done" /\ routed # <<>>) =>
        FlowView(EmittedFlows) = FlowView(OneBatchFlows(routed))

WrittenFlows == FlowsOfFiles(chunk_files)
Occurrences(flows, id) == Cardinality({k \in 1..Len(flows) : flows[k].id = id})
IsPrefix(s, t) == Len(s) <= Len(t) /\ \A k \in 1..Len(s) : t[k] = s[k]

\* C14: no step changes or removes a chunk file or an index entry already
\* written, no two chunk files have the same name, every flow is written at
\* most once and is no longer pending once written, a written flow has
\* exactly one index entry, which names its file and its place there, and
\* at the end of the run every flow is in exactly one chunk file.
C14_WrittenOnceAndImmutable ==
    [][ /\ IsPrefix(chunk_files, chunk_files')
        /\ IsPrefix(flows_index, flows_index')
        /\ \A a, b \in 1..Len(chunk_files') :
               chunk_files'[a].name = chunk_files'[b].name => a = b
        /\ \A id \in {FlowIdText(n) : n \in 1..flow_counter'} :
               /\ Occurrences(WrittenFlows', id) + Occurrences(all_completed_flows', id) <= 1
               /\ Occurrences(flows_index', id) = Occurrences(WrittenFlows', id)
               /\ pc' = "done" => Occurrences(WrittenFlows', id) = 1
        /\ \A k \in 1..Len(flows_index') :
               \E a \in 1..Len(chunk_files') :
                   /\ chunk_files'[a].name = flows_index'[k].chunk_file
                   /\ flows_index'[k].chunk_index + 1 \in 1..Len(chunk_files'[a].flows)
                   /\ chunk_files'[a].flows[flows_index'[k].chunk_index + 1].id = flows_index'[k].id
      ]_vars

C14_Witness ==
    /\ pc = "done"
    /\ Len(chunk_files) = 2
    /\ Len(chunk_files[1].flows) = 2
    /\ Len(flows_index) = 3
    /\ flows_index[3].chunk_file = 1 /\ flows_index[3].chunk_index = 0

\* C15 (as claimed): over the whole run at most one flow is emitted for a
\* connection key, and the table never holds two entries of one key.
C15_OneFlowPerKey ==
    /\ \A a, b \in 1..Len(EmittedFlows) :
           EmittedFlows[a].key = EmittedFlows[b].key => a = b
    /\ \A a, b \in 1..Len(connection_map) :
           connection_map[a].key = connection_map[b].key => a = b

\* C16: the run reaches its end; the step that ends it hands every
\* connection still in the table to process_single_flow, timed out or not,
\* writes that flow (not tagged completed_by_timeout) and every flow that
\* was pending to a chunk file, and leaves the pending buffer empty.
C16_TerminatesAndFlushesAll ==
    /\ <>(pc = "done")
    /\ [][ pc' = "done" =>
              /\ all_completed_flows' = <<>>
              /\ total_flows_written' = Len(WrittenFlows')
              /\ \A e \in 1..Len(connection_map) :
                     \E j \in 1..Len(WrittenFlows') :
                         /\ WrittenFlows'[j] = process_single_flow(connection_map[e].key,
                                                                   connection_map[e].packets,
                                                                   connection_map[e].flow_id)
                         /\ ~WrittenFlows'[j].completed_by_timeout
              /\ \A k \in 1..Len(all_completed_flows) :
                     \E j \in 1..Len(WrittenFlows') : WrittenFlows'[j] = all_completed_flows[k]
          ]_vars

C16_Witness ==
    /\ pc = "done"
    /\ Len(connection_map) = 2
    /\ Len(chunk_files) = 2
    /\ Len(chunk_files[2].flows) = 1
    /\ chunk_files[2].flows[1].id = connection_map[2].flow_id
    /\ ~HasFinOrRst(connection_map[2].packets)
    /\ chunk_files[1].flows[1].completed_by_timeout

\* The records a step has read, and the table as the scan of that step finds
\* it, the records attached.
ReadByStep == SubSeq(routed', Len(routed) + 1, Len(routed'))
ScannedTable == AttachAll([cmap |-> connection_map, counter |-> flow_counter], ReadByStep).cmap

CompletedByStep(c) == \E f \in NewFlows : f.id = c.flow_id /\ f.key = c.key
InTableAfterStep(c) == \E i \in 1..Len(connection_map') : connection_map'[i] = c

\* C17 (as claimed): a scan completes and evicts a connection if and only if
\* it has seen FIN or RST or its inactivity, the batch's maximum timestamp
\* minus its last packet time, exceeds the threshold; otherwise the
\* connection stays in the table.
C17_CompletedIffExceeds ==
    [][ pc' = "reading" =>
          \A e \in 1..Len(ScannedTable) :
              LET c == ScannedTable[e]
                  eligible == \/ HasFinOrRst(c.packets)
                              \/ MaxTimestamp(ReadByStep) - c.last_packet_time
                                     > FlowTimeoutSeconds * MICROS_PER_SECOND
              IN  /\ eligible => (CompletedByStep(c) /\ ~InTableAfterStep(c))
                  /\ ~eligible => (InTableAfterStep(c) /\ ~CompletedByStep(c)) ]_vars

\* C17 (amended): the same with an inactivity that is at least the
\* threshold.
C17_CompletedIffAtLeast ==
    [][ pc' = "reading" =>
          \A e \in 1..Len(ScannedTable) :
              LET c == ScannedTable[e]
                  eligible == \/ HasFinOrRst(c.packets)
                              \/ MaxTimestamp(ReadByStep) - c.last_packet_time
                                     >= FlowTimeoutSeconds * MICROS_PER_SECOND
              IN  /\ eligible => (CompletedByStep(c) /\ ~InTableAfterStep(c))
                  /\ ~eligible => (InTableAfterStep(c) /\ ~CompletedByStep(c)) ]_vars

\* A scan with the clock at 15 s has completed a connection whose last
\* packet came at 10 s, and left another one in the table.
C17_Witness ==
    /\ pc = "reading"
    /\ latest_timestamp = T15
    /\ Len(connection_map) = 1
    /\ \E j \in 1..Len(EmittedFlows) :
          /\ EmittedFlows[j].completed_by_timeout
          /\ EmittedFlows[j].totalPackets = Len(EmittedFlows[j].packets)
          /\ \A k \in 1..Len(EmittedFlows[j].packets) :
                 EmittedFlows[j].packets[k].timestamp = T10

\* Packet p passes the check of the third handshake step against the
\* numbers recorded in the flow.
ValidatedAck(flow, p) ==
    /\ flow.expectedSeqNum # NoneNum
    /\ flow.expectedAckNum # NoneNum
    /\ p.ack_num = flow.expectedSeqNum
    /\ p.seq_num = flow.expectedAckNum

\* C18 (as claimed): the loop takes a flow from establishing to established
\* only at a pure ACK whose ack_num is the recorded expected-seq and whose
\* seq_num is the recorded expected-ack, and a pure ACK that reaches an
\* establishing flow and fails this makes the flow invalid, reason
\* invalid_ack.
C18_EstablishedOnlyOnValidatedAck ==
    fsm_flow # <<>> =>
        \A i \in 1..Len(fsm_packets) :
            LET before == AfterPackets(fsm_packets, i - 1)
                after == AfterPackets(fsm_packets, i)
            IN  /\ (before.state = "establishing" /\ after.state = "established") =>
                       (IsPureAck(fsm_packets[i]) /\ ValidatedAck(before, fsm_packets[i]))
                /\ ( /\ before.state = "establishing"
                      /\ IsPureAck(fsm_packets[i])
                      /\ ~ValidatedAck(before, fsm_packets[i]) ) =>
                       (after.state = "invalid" /\ after.invalidReason = "invalid_ack")

\* Flow g has the state, close type, invalid reason and phase lists of f.
Frozen(f, g) ==
    /\ g.state = f.state
    /\ g.closeType = f.closeType
    /\ g.invalidReason = f.invalidReason
    /\ g.establishment = f.establishment
    /\ g.dataTransfer = f.dataTransfer
    /\ g.closing = f.closing

\* C19: once the loop has made a flow invalid, every later packet of the
\* list leaves its state, close type, invalid reason and phase lists as
\* they are, and so does the end of process_single_flow.
C19_InvalidAbsorbing ==
    fsm_flow # <<>> =>
        \A i \in 1..Len(fsm_packets) :
            AfterPackets(fsm_packets, i).state = "invalid" =>
                /\ \A k \in i..Len(fsm_packets) :
                       Frozen(AfterPackets(fsm_packets, i), AfterPackets(fsm_packets, k))
                /\ Frozen(AfterPackets(fsm_packets, i), fsm_flow[1])

\* A flow made invalid by a reset during the handshake, followed by a
\* SYN+ACK and a FIN.
C19_Witness ==
    /\ fsm_flow # <<>>
    /\ Len(fsm_packets) = 4
    /\ AfterPackets(fsm_packets, 2).state = "invalid"
    /\ AfterPackets(fsm_packets, 2).invalidReason = "rst_during_handshake"
    /\ IsSynAck(fsm_packets[3])
    /\ IsFin(fsm_packets[4])
    /\ Len(fsm_flow[1].packets) = 4

\* C20: a packet with RST that the loop processes in state establishing
\* makes the flow invalid, close type invalid, reason rst_during_handshake;
\* one processed in any other state but invalid makes it aborted, close
\* type abortive; both add the packet to the closing list as an rst entry
\* and nothing to the other lists.
C20_RstHandling ==
    fsm_flow # <<>> =>
        \A i \in 1..Len(fsm_packets) :
            LET before == AfterPackets(fsm_packets, i - 1)
                after == AfterPackets(fsm_packets, i)
            IN  (FlagSet(fsm_packets[i].flags, RST) /\ before.state # "invalid") =>
                    /\ before.state = "establishing" =>
                           /\ after.state = "invalid"
                           /\ after.closeType = "invalid"
                           /\ after.invalidReason = "rst_during_handshake"
                    /\ before.state # "establishing" =>
                           /\ after.state = "aborted"
                           /\ after.closeType = "abortive"
                           /\ after.invalidReason = before.invalidReason
                    /\ after.closing = Append(before.closing,
                                              PhaseEntry(fsm_packets[i], "rst", "Connection Aborted"))
                    /\ after.establishment = before.establishment
                    /\ after.dataTransfer = before.dataTransfer

\* A reset with ACK during the handshake.
C20_Witness ==
    /\ fsm_flow # <<>>
    /\ \E i \in 1..Len(fsm_packets) :
          /\ fsm_packets[i].flags = RST + ACK
          /\ AfterPackets(fsm_packets, i - 1).state = "establishing"
          /\ AfterPackets(fsm_packets, i - 1).synAckPacket # <<>>
    /\ fsm_flow[1].invalidReason = "rst_during_handshake"

\* The flow as the packet loop leaves it.
AfterLoop == AfterPackets(fsm_packets, Len(fsm_packets))

SeenSyn(pkts) == \E k \in 1..Len(pkts) : IsSyn(pkts[k])
SeenSynAck(pkts) == \E k \in 1..Len(pkts) : IsSynAck(pkts[k])

\* C21: a flow that the loop leaves establishing ends invalid, close type
\* invalid, with reason incomplete_no_syn if its list has no SYN,
\* incomplete_no_synack if it has a SYN and no SYN+ACK, incomplete_no_ack if
\* it has a SYN+ACK (establishment not being complete); a flow that the loop
\* leaves closing ends closed with its close type kept; no flow ends
\* establishing or closing.
C21_PostLoopFinalization ==
    fsm_flow # <<>> =>
        /\ AfterLoop.state = "establishing" =>
               /\ fsm_flow[1].state = "invalid"
               /\ fsm_flow[1].closeType = "invalid"
               /\ ~AfterLoop.establishmentComplete
               /\ fsm_flow[1].invalidReason =
                      IF ~SeenSyn(fsm_packets) THEN "incomplete_no_syn"
                      ELSE IF ~SeenSynAck(fsm_packets) THEN "incomplete_no_synack"
                      ELSE "incomplete_no_ack"
        /\ AfterLoop.state = "closing" =>
               /\ fsm_flow[1].state = "closed"
               /\ fsm_flow[1].closeType = AfterLoop.closeType
               /\ fsm_flow[1].invalidReason = AfterLoop.invalidReason
        /\ fsm_flow[1].state \notin {"establishing", "closing"}

\* A SYN and its SYN+ACK without the completing ACK.
C21_Witness ==
    /\ fsm_flow # <<>>
    /\ AfterLoop.state = "establishing"
    /\ SeenSynAck(fsm_packets)
    /\ fsm_flow[1].invalidReason = "incomplete_no_ack"

\* C22: the flow ends ongoing exactly if, after the loop and the final
\* validation, its state is none of invalid, closed, aborted, it has no
\* close type and its establishment is complete or its data transfer
\* started; and its close type is open exactly if its state is ongoing.
C22_OngoingIff ==
    fsm_flow # <<>> =>
        LET v == FinalValidation(AfterLoop)
        IN  /\ (fsm_flow[1].state = "ongoing") <=>
                   ( /\ v.state \notin {"invalid", "closed", "aborted"}
                     /\ v.closeType = "none"
                     /\ (v.establishmentComplete \/ v.dataTransferStarted) )
            /\ (fsm_flow[1].closeType = "open") <=> (fsm_flow[1].state = "ongoing")
            /\ fsm_flow[1].ongoing <=> (fsm_flow[1].state = "ongoing")
            /\ fsm_flow[1].state # "ongoing" =>
                   (fsm_flow[1].state = v.state /\ fsm_flow[1].closeType = v.closeType)

\* An established flow whose data transfer is under way after a FIN, which
\* has a close type and so does not end ongoing.
C22_Witness ==
    /\ fsm_flow # <<>>
    /\ AfterLoop.state = "data_transfer"
    /\ AfterLoop.closeType = "graceful"
    /\ fsm_flow[1].state = "data_transfer"

\* C23 (as claimed): every flow tagged completed_by_timeout ends ongoing
\* with close type open.
C23_TimedOutIsOngoing ==
    \A j \in 1..Len(EmittedFlows) :
        EmittedFlows[j].completed_by_timeout =>
            (EmittedFlows[j].state = "ongoing" /\ EmittedFlows[j].closeType = "open")

\* C24: handshake validation compares Python ints exactly, with no
\* reduction modulo 2^32. After a SYN with seq_num 2^32 - 1 a SYN+ACK is
\* accepted when its ack_num is 2^32 and makes the flow invalid with reason
\* invalid_synack otherwise (ack_num 0 included); after a SYN+ACK with
\* seq_num 2^32 - 1 accepted that way the expected number is 2^32, and a pure
\* ACK establishes the connection when it carries ack_num 2^32 and the
\* expected seq_num, and makes the flow invalid with reason invalid_ack
\* otherwise.
C24_NoWraparound ==
    fsm_flow # <<>> =>
        \A i \in 2..Len(fsm_packets) :
            LET prev == AfterPackets(fsm_packets, i - 1)
                cur == AfterPackets(fsm_packets, i)
                p == fsm_packets[i]
            IN  /\ ( /\ prev.state = "establishing"
                     /\ prev.synPacket # <<>>
                     /\ prev.synPacket[1].seq_num = U32Max
                     /\ IsSynAck(p) )
                   => IF p.ack_num = TwoTo32
                      THEN /\ cur.state = "establishing"
                           /\ cur.synAckPacket = <<p>>
                           /\ (p.seq_num = U32Max => cur.expectedSeqNum = TwoTo32)
                      ELSE /\ cur.state = "invalid"
                           /\ cur.invalidReason = "invalid_synack"
                /\ ( /\ prev.state = "establishing"
                     /\ prev.synPacket # <<>>
                     /\ prev.synPacket[1].seq_num = U32Max
                     /\ prev.synAckPacket # <<>>
                     /\ prev.synAckPacket[1].seq_num = U32Max
                     /\ prev.synAckPacket[1].ack_num = TwoTo32
                     /\ prev.expectedSeqNum # NoneNum
                     /\ IsPureAck(p) )
                   => IF p.ack_num = TwoTo32 /\ p.seq_num = TwoTo32
                      THEN cur.state = "established"
                      ELSE /\ cur.state = "invalid"
                           /\ cur.invalidReason = "invalid_ack"

\* A SYN with seq_num 2^32 - 1 was answered by a SYN+ACK with ack_num 0.
C24_Witness ==
    /\ fsm_flow # <<>>
    /\ Len(fsm_packets) = 2
    /\ IsSyn(fsm_packets[1]) /\ fsm_packets[1].seq_num = U32Max
    /\ IsSynAck(fsm_packets[2]) /\ fsm_packets[2].ack_num = PyInt(0)
    /\ fsm_flow[1].invalidReason = "invalid_synack"

\* The fields of a flow that a connection request sets.
SynFields(flow) ==
    <<flow.initiator, flow.responder, flow.initiatorPort, flow.responderPort,
      flow.synPacket, flow.expectedAckNum>>

IsFirstSyn(pkts, i) == IsSyn(pkts[i]) /\ \A j \in 1..(i - 1) : ~IsSyn(pkts[j])

\* C25: the first packet with SYN set and ACK and RST clear sets the
\* initiator and responder address and port from its source and
\* destination, the state establishing, the expected acknowledgment number
\* seq_num + 1 and appends one "syn" establishment entry; before it the
\* fields are unset, no other packet changes them, and a later SYN changes
\* neither them nor the state nor any phase list.
C25_InitiatorSetOnce ==
    fsm_flow # <<>> =>
        \A i \in 1..Len(fsm_packets) :
            LET prev == AfterPackets(fsm_packets, i - 1)
                cur == AfterPackets(fsm_packets, i)
                p == fsm_packets[i]
            IN  IF IsFirstSyn(fsm_packets, i)
                THEN /\ prev.initiator = NoneStr /\ prev.responder = NoneStr
                     /\ prev.initiatorPort = NonePort /\ prev.responderPort = NonePort
                     /\ cur.initiator = p.src_ip /\ cur.initiatorPort = p.src_port
                     /\ cur.responder = p.dst_ip /\ cur.responderPort = p.dst_port
                     /\ cur.state = "establishing"
                     /\ cur.expectedAckNum = PlusOne(p.seq_num)
                     /\ cur.establishment =
                            Append(prev.establishment,
                                   [packet |-> p, phase |-> "syn", description |-> "Connection Request"])
                     /\ PhaseCount(cur.establishment, "syn") = 1
                ELSE /\ SynFields(cur) = SynFields(prev)
                     /\ PhaseCount(cur.establishment, "syn") = PhaseCount(prev.establishment, "syn")
                     /\ IsSyn(p) =>
                            /\ cur.state = prev.state
                            /\ cur.establishment = prev.establishment
                            /\ cur.dataTransfer = prev.dataTransfer
                            /\ cur.closing = prev.closing

\* A request from 10:1000 was followed by a request from 9:80 with another
\* sequence number, and the flow kept 10:1000 as its initiator.
C25_Witness ==
    /\ fsm_flow # <<>>
    /\ Len(fsm_packets) >= 2
    /\ IsSyn(fsm_packets[1]) /\ fsm_packets[1].src_ip = IPA
    /\ IsSyn(fsm_packets[2]) /\ fsm_packets[2].src_ip = IPB
    /\ fsm_packets[2].seq_num # fsm_packets[1].seq_num
    /\ fsm_flow[1].initiator = IPA
    /\ fsm_flow[1].expectedAckNum = PlusOne(fsm_packets[1].seq_num)

\* C26: after every step of a run the flows produced so far, written then
\* pending, extend those before the step (flows are written oldest first,
\* in buffer order); fewer than ChunkSize flows stay pending while the
\* input is read; the a-th chunk file is number a - 1; no chunk file is
\* empty and every one but the last holds exactly ChunkSize flows; and the
\* k-th index entry describes the k-th written flow, with its chunk file
\* and its position, counted from 0, in that file.
C26_OutputChunking ==
    [][ /\ IsPrefix(EmittedFlows, EmittedFlows')
        /\ IsPrefix(WrittenFlows, WrittenFlows')
        /\ pc' = "reading" => Len(all_completed_flows') < ChunkSize
        /\ flow_chunk_counter' = Len(chunk_files')
        /\ \A a \in 1..Len(chunk_files') :
               /\ chunk_files'[a].name = a - 1
               /\ Len(chunk_files'[a].flows) \in 1..ChunkSize
               /\ (a < Len(chunk_files') \/ pc' = "reading") =>
                      Len(chunk_files'[a].flows) = ChunkSize
        /\ Len(flows_index') = Len(WrittenFlows')
        /\ \A k \in 1..Len(flows_index') :
               /\ flows_index'[k].id = WrittenFlows'[k].id
               /\ flows_index'[k].chunk_file = (k - 1) \div ChunkSize
               /\ flows_index'[k].chunk_index = (k - 1) % ChunkSize
               /\ chunk_files'[flows_index'[k].chunk_file + 1].flows[flows_index'[k].chunk_index + 1]
                      = WrittenFlows'[k]
      ]_vars

\* A full chunk file was written while the input was read, and the end of
\* the run wrote a shorter one after it.
C26_Witness ==
    /\ pc = "done"
    /\ Len(chunk_files) = 2
    /\ Len(chunk_files[1].flows) = ChunkSize
    /\ Len(chunk_files[2].flows) < ChunkSize
    /\ \E k \in 1..Len(connection_map) :
           connection_map[k].flow_id = chunk_files[2].flows[1].id
    /\ \A k \in 1..Len(connection_map) :
           connection_map[k].flow_id # chunk_files[1].flows[1].id
    /\ flows_index[Len(flows_index)].chunk_file = 1
    /\ flows_index[Len(flows_index)].chunk_index = 0

\* The most flows the pending buffer holds in the course of a step: those
\* pending before it and those the step appends, before any is written.
PeakPending == Len(EmittedFlows') - Len(WrittenFlows)

\* C27: at every point of a run, right after a completion scan and in the
\* course of the end of the run included, the pending buffer holds at most
\* ChunkSize flows.
C27_PendingAtMostOneBatch ==
    [][PeakPending <= ChunkSize]_vars

\* The arrival number of the packet that created an entry or a flow: the
\* first of its packets to arrive.
FirstArrival(pkts) == CHOOSE u \in Uids(pkts) : \A v \in Uids(pkts) : u <= v

\* Every table entry created so far: [id, first], from the flows produced
\* and, while the input is read, from the entries still in the table (the
\* end of the run produces their flows and leaves them in the table).
EntriesCreated ==
    {[id |-> EmittedFlows[j].id, first |-> FirstArrival(EmittedFlows[j].packets)] :
        j \in 1..Len(EmittedFlows)}
    \cup (IF pc = "done" THEN {}
          ELSE {[id |-> connection_map[i].flow_id,
                 first |-> FirstArrival(connection_map[i].packets)] :
                    i \in 1..Len(connection_map)})

\* C28: the k-th table entry created in a run, in the order of the packets
\* that create them, has the identifier flow_ followed by k in six digits;
\* the identifiers of the flows produced are pairwise distinct; and every
\* entry of the table is, after a step, still in the table or turned into a
\* flow, with the same identifier.
C28_SequentialStableIds ==
    [][ /\ Cardinality(EntriesCreated') = flow_counter'
        /\ \A k \in 1..flow_counter' :
               \E e \in EntriesCreated' :
                   /\ e.id = FlowIdText(k)
                   /\ Cardinality({d \in EntriesCreated' : d.first <= e.first}) = k
        /\ \A a, b \in 1..Len(EmittedFlows') :
               EmittedFlows'[a].id = EmittedFlows'[b].id => a = b
        /\ \A i \in 1..Len(connection_map) :
               \/ \E j \in 1..Len(connection_map') :
                      /\ connection_map'[j].key = connection_map[i].key
                      /\ connection_map'[j].flow_id = connection_map[i].flow_id
               \/ \E f \in NewFlows :
                      /\ f.key = connection_map[i].key
                      /\ f.id = connection_map[i].flow_id
      ]_vars

\* Three entries were created, and the flow of the second was produced
\* before the flow of the first.
C28_Witness ==
    /\ flow_counter = 3
    /\ Len(EmittedFlows) >= 2
    /\ EmittedFlows[1].id = FlowIdText(2)
    /\ EmittedFlows[2].id = FlowIdText(1)

\* What the two detectors are compared on: identifier, state, close type,
\* invalid reason, phase lists and totals of a flow.
ComparedFields(flow) ==
    [id |-> flow.id, state |-> flow.state, closeType |-> flow.closeType,
     invalidReason |-> flow.invalidReason,
     establishment |-> flow.establishment, dataTransfer |-> flow.dataTransfer,
     closing |-> flow.closing,
     totalPackets |-> flow.totalPackets, totalBytes |-> flow.totalBytes]

FlowsOfKey(flows, key) == {j \in 1..Len(flows) : flows[j].key = key}

\* C29: when the whole input came as one ingestion batch, the finished
\* streaming run has, for every connection key, exactly one flow, the
\* one-shot detect_tcp_flows has exactly one too, both agree on identifier,
\* state, close type, invalid reason, phase lists and totals, and the IP,
\* IP-pair and flag aggregates of the two are the same.
C29_OneShotIsStreamingOneBatch ==
    pc = "done" =>
        LET one == detect_tcp_flows(routed)
            keys == {EmittedFlows[j].key : j \in 1..Len(EmittedFlows)}
                    \cup {one.flows[j].key : j \in 1..Len(one.flows)}
        IN  /\ \A key \in keys :
                   /\ Cardinality(FlowsOfKey(EmittedFlows, key)) = 1
                   /\ Cardinality(FlowsOfKey(one.flows, key)) = 1
                   /\ \A a \in FlowsOfKey(EmittedFlows, key), b \in FlowsOfKey(one.flows, key) :
                          ComparedFields(EmittedFlows[a]) = ComparedFields(one.flows[b])
            /\ ip_stats = one.ip_stats
            /\ ip_pair_map = one.ip_pair_map
            /\ flag_stats = one.flag_stats

\* A run of two connections or more where the scan completed the second
\* before the end of the run produced the first, so that the streaming run
\* and the one-shot detector list the flows in different orders, and where
\* a flow holds two packets or more.
C29_Witness ==
    /\ pc = "done"
    /\ Len(EmittedFlows) >= 2
    /\ EmittedFlows[1].id = FlowIdText(2)
    /\ detect_tcp_flows(routed).flows[1].id = FlowIdText(1)
    /\ \E j \in 1..Len(EmittedFlows) : EmittedFlows[j].totalPackets >= 2

\* The records read so far that satisfy a condition, and their bytes.
RecordsWhere(records, Cond(_)) == SelectSeq(records, Cond)

NotBelow(after, before, fields) == \A f \in fields : after[f] >= before[f]

\* C30: no step of a run removes an entry of the flag histogram, the IP
\* stats or the IP-pair stats or lowers one of their counters (packets,
\* bytes, last timestamp; a first timestamp never rises); the end of the
\* run, which evaluates and writes the remaining flows, leaves the three
\* unchanged; and after every step, whatever the scan completed, judged
\* invalid, evicted or wrote, every entry counts exactly the records read
\* so far that concern it.
C30_AggregatesNeverRollBack ==
    [][ /\ DOMAIN ip_stats \subseteq DOMAIN ip_stats'
        /\ \A ip \in DOMAIN ip_stats :
               /\ NotBelow(ip_stats'[ip], ip_stats[ip],
                           {"sent_packets", "recv_packets", "sent_bytes", "recv_bytes", "last_ts"})
               /\ ip_stats'[ip].first_ts <= ip_stats[ip].first_ts
        /\ DOMAIN flag_stats \subseteq DOMAIN flag_stats'
        /\ \A ft \in DOMAIN flag_stats : flag_stats'[ft] >= flag_stats[ft]
        /\ DOMAIN ip_pair_map \subseteq DOMAIN ip_pair_map'
        /\ \A k \in DOMAIN ip_pair_map :
               /\ NotBelow(ip_pair_map'[k], ip_pair_map[k],
                           {"packet_count", "a_to_b_packets", "b_to_a_packets",
                            "a_to_b_bytes", "b_to_a_bytes", "last_ts"})
               /\ ip_pair_map'[k].first_ts <= ip_pair_map[k].first_ts
        /\ pc' = "done" =>
               /\ ip_stats' = ip_stats
               /\ flag_stats' = flag_stats
               /\ ip_pair_map' = ip_pair_map
        /\ DOMAIN ip_stats' =
               {routed'[i].src_ip : i \in 1..Len(routed')} \cup {routed'[i].dst_ip : i \in 1..Len(routed')}
        /\ \A ip \in DOMAIN ip_stats' :
               LET sent == RecordsWhere(routed', LAMBDA r : r.src_ip = ip)
                   recv == RecordsWhere(routed', LAMBDA r : r.dst_ip = ip)
               IN  /\ ip_stats'[ip].sent_packets = Len(sent)
                   /\ ip_stats'[ip].sent_bytes = SumLength(sent)
                   /\ ip_stats'[ip].recv_packets = Len(recv)
                   /\ ip_stats'[ip].recv_bytes = SumLength(recv)
        /\ DOMAIN flag_stats' = {routed'[i].flag_type : i \in 1..Len(routed')}
        /\ \A ft \in DOMAIN flag_stats' :
               flag_stats'[ft] = Len(RecordsWhere(routed', LAMBDA r : r.flag_type = ft))
        /\ \A k \in DOMAIN ip_pair_map' :
               ip_pair_map'[k].packet_count =
                   Len(RecordsWhere(routed', LAMBDA r : {r.src_ip, r.dst_ip} = {k[1], k[2]}))
      ]_vars

\* Three records were read, one of them attached to no connection; a scan
\* has judged a flow invalid and evicted it, a chunk file has been written,
\* and a flag has been counted twice.
C30_Witness ==
    /\ Len(routed) = 3
    /\ \E i \in 1..Len(routed) : ~Attachable(routed[i])
    /\ \E j \in 1..Len(WrittenFlows) : WrittenFlows[j].state = "invalid"
    /\ \E ft \in DOMAIN flag_stats : flag_stats[ft] >= 2
    /\ connection_map = <<>>

\* The records read so far between the two addresses of a pair.
PairRecords(k) == RecordsWhere(routed, LAMBDA r : {r.src_ip, r.dst_ip} = {k[1], k[2]})

\* C31: every IP-pair entry is keyed by its two addresses in string order
\* and holds them as ip1 and ip2; its packet_count is a_to_b_packets plus
\* b_to_a_packets and the number of records of the pair; the a_to_b counts
\* are those of the records whose source is the first address and the
\* b_to_a counts those of the others; first_ts and last_ts are the least
\* and the greatest timestamp of the records of the pair; and every record
\* read has its pair in the map.
C31_PairEntryConsistent ==
    /\ \A i \in 1..Len(routed) :
           \E k \in DOMAIN ip_pair_map : {routed[i].src_ip, routed[i].dst_ip} = {k[1], k[2]}
    /\ \A k \in DOMAIN ip_pair_map :
           LET e == ip_pair_map[k]
               recs == PairRecords(k)
               fromA == RecordsWhere(recs, LAMBDA r : r.src_ip = k[1])
               fromB == RecordsWhere(recs, LAMBDA r : r.src_ip # k[1])
           IN  /\ ~LexLess(k[2], k[1])
               /\ e.ip1 = k[1] /\ e.ip2 = k[2]
               /\ e.packet_count = e.a_to_b_packets + e.b_to_a_packets
               /\ e.packet_count = Len(recs)
               /\ e.a_to_b_packets = Len(fromA)
               /\ e.b_to_a_packets = Len(fromB)
               /\ e.a_to_b_bytes = SumLength(fromA)
               /\ e.b_to_a_bytes = SumLength(fromB)
               /\ e.first_ts <= e.last_ts
               /\ \A j \in 1..Len(recs) :
                      e.first_ts <= recs[j].timestamp /\ recs[j].timestamp <= e.last_ts
               /\ \E j \in 1..Len(recs) : recs[j].timestamp = e.first_ts
               /\ \E j \in 1..Len(recs) : recs[j].timestamp = e.last_ts

\* The pair of 10 and 9, keyed <<"10", "9">>, has packets in both
\* directions at different times, the later one read first.
C31_Witness ==
    /\ <<IPA, IPB>> \in DOMAIN ip_pair_map
    /\ ip_pair_map[<<IPA, IPB>>].a_to_b_packets >= 1
    /\ ip_pair_map[<<IPA, IPB>>].b_to_a_packets >= 1
    /\ ip_pair_map[<<IPA, IPB>>].first_ts < ip_pair_map[<<IPA, IPB>>].last_ts
    /\ Len(routed) >= 2
    /\ routed[1].timestamp > routed[2].timestamp

RECURSIVE SumOfCounts(_)
SumOfCounts(bs) == IF bs = <<>> THEN 0 ELSE Head(bs).count + SumOfCounts(Tail(bs))

\* C32 (as claimed): for a non-empty list of timestamps the bins written at
\* the end of the run are NumBins in number, each counts the timestamps t
\* with start <= t < end, and the counts sum to the number of timestamps.
C32_BinsCoverAllTimestamps ==
    (pc = "done" /\ all_timestamps # <<>>) =>
        /\ Len(bins) = NumBins
        /\ \A k \in 1..Len(bins) :
               bins[k].count =
                   Cardinality({j \in 1..Len(all_timestamps) :
                       bins[k].start <= all_timestamps[j] /\ all_timestamps[j] < bins[k].end})
        /\ SumOfCounts(bins) = Len(all_timestamps)

\* C33: after every step of a run no entry of the table has its
\* has_fin_or_rst flag set or holds a packet with FIN or RST, and none is
\* inactive, by the clock of the last scan, for the timeout or longer; and
\* for every record with FIN or RST that a batch attaches to a connection,
\* the scan of that batch produces the flow of that connection and leaves
\* no entry with its key or holding the record.
C33_NoCompleteEntryRemains ==
    [][ /\ \A i \in 1..Len(connection_map') :
               /\ ~connection_map'[i].has_fin_or_rst
               /\ ~HasFinOrRst(connection_map'[i].packets)
               /\ latest_timestamp' - connection_map'[i].last_packet_time
                      < FlowTimeoutSeconds * MICROS_PER_SECOND
        /\ pc' = "reading" =>
               \A j \in 1..Len(ReadByStep) :
                   LET r == ReadByStep[j]
                   IN  (Attachable(r) /\ (FlagSet(r.flags, FIN) \/ FlagSet(r.flags, RST))) =>
                           /\ \E f \in NewFlows : f.key = ConnectionKey(r)
                           /\ \A i \in 1..Len(connection_map') :
                                  /\ connection_map'[i].key # ConnectionKey(r)
                                  /\ r.uid \notin Uids(connection_map'[i].packets)
      ]_vars

\* A scan has completed a connection that saw a FIN and left in the table
\* another one, idle for 10 s by an earlier clock but not by this one.
C33_Witness ==
    /\ pc = "reading"
    /\ \E j \in 1..Len(EmittedFlows) : HasFinOrRst(EmittedFlows[j].packets)
    /\ Len(connection_map) = 1
    /\ latest_timestamp = T10
    /\ connection_map[1].last_packet_time = T10
    /\ Len(routed) = 3

\* The timestamps of a packet list.
TimestampsOf(pkts) == [j \in 1..Len(pkts) |-> pkts[j].timestamp]

\* C34 (as claimed): after the records of a batch are attached, the
\* last_packet_time of every entry is the greatest timestamp of its
\* packets, and a connection that the scan evicts without a FIN or RST
\* holds no packet whose timestamp is within the timeout of the scan clock.
C34_LastPacketTimeIsGreatest ==
    [][ pc' = "reading" =>
           \A i \in 1..Len(ScannedTable) :
               LET c == ScannedTable[i]
               IN  /\ c.last_packet_time = GreatestOf(TimestampsOf(c.packets))
                   /\ (~c.has_fin_or_rst /\ ~InTableAfterStep(c)) =>
                          \A j \in 1..Len(c.packets) :
                              latest_timestamp' - c.packets[j].timestamp
                                  >= FlowTimeoutSeconds * MICROS_PER_SECOND
      ]_vars

\* C35: a flow produced by a step is tagged completed_by_timeout only if
\* the step is a scan, not the end of the run, the entry it comes from was
\* inactive for the timeout or longer by the clock of that scan, and
\* neither the entry nor the flow holds a packet with FIN or RST.
C35_TimeoutTagOnlyByScan ==
    [][ \A f \in NewFlows :
           f.completed_by_timeout =>
               /\ pc' = "reading"
               /\ ~HasFinOrRst(f.packets)
               /\ \E i \in 1..Len(ScannedTable) :
                      LET c == ScannedTable[i]
                      IN  /\ c.flow_id = f.id
                          /\ ~c.has_fin_or_rst
                          /\ ~HasFinOrRst(c.packets)
                          /\ latest_timestamp' - c.last_packet_time
                                 >= FlowTimeoutSeconds * MICROS_PER_SECOND
      ]_vars

\* A finished run with a flow tagged completed_by_timeout, an untagged
\* flow that saw a FIN or RST, and an untagged flow produced by the end of
\* the run.
C35_Witness ==
    /\ pc = "done"
    /\ \E j \in 1..Len(EmittedFlows) : EmittedFlows[j].completed_by_timeout
    /\ \E j \in 1..Len(EmittedFlows) :
           /\ ~EmittedFlows[j].completed_by_timeout
           /\ HasFinOrRst(EmittedFlows[j].packets)
    /\ \E j \in 1..Len(EmittedFlows), i \in 1..Len(connection_map) :
           /\ EmittedFlows[j].id = connection_map[i].flow_id
           /\ ~EmittedFlows[j].completed_by_timeout

\* C36 (as claimed): in a finalized flow, state invalid goes with close type
\* invalid and an invalid reason, closed with graceful and aborted with
\* abortive, and close type graceful, abortive or invalid goes with state
\* closed, aborted or invalid.
C36_StateMatchesCloseType ==
    fsm_flow # <<>> =>
        LET f == fsm_flow[1]
        IN  /\ f.state = "invalid" => (f.closeType = "invalid" /\ f.invalidReason # "none")
            /\ f.state = "closed" => f.closeType = "graceful"
            /\ f.state = "aborted" => f.closeType = "abortive"
            /\ f.closeType = "graceful" => f.state = "closed"
            /\ f.closeType = "abortive" => f.state = "aborted"
            /\ f.closeType = "invalid" => f.state = "invalid"

\* The close of a flow has started: it saw a FIN, or a RST aborted it.
CloseStarted(flow) == flow.closingStarted \/ flow.state = "aborted"

\* C37 (as claimed): once the loop has seen the first FIN of a flow or a RST
\* has aborted it, no later packet of the list makes its state
\* establishing, established or data_transfer or changes its close type; a
\* flow that saw a FIN and no RST ends closed, and a flow that a RST aborted
\* ends aborted.
C37_CloseNeverUndone ==
    fsm_flow # <<>> =>
        /\ \A i \in 1..Len(fsm_packets) :
               CloseStarted(AfterPackets(fsm_packets, i)) =>
                   /\ \A k \in i..Len(fsm_packets) :
                          /\ AfterPackets(fsm_packets, k).state
                                 \notin {"establishing", "established", "data_transfer"}
                          /\ AfterPackets(fsm_packets, k).closeType
                                 = AfterPackets(fsm_packets, i).closeType
                   /\ AfterPackets(fsm_packets, i).state = "aborted" =>
                          fsm_flow[1].state = "aborted"
        /\ ( /\ \E i \in 1..Len(fsm_packets) : AfterPackets(fsm_packets, i).closingStarted
             /\ \A i \in 1..Len(fsm_packets) : ~FlagSet(fsm_packets[i].flags, RST) )
           => fsm_flow[1].state = "closed"

RECURSIVE SumTotalPackets(_)
SumTotalPackets(flows) ==
    IF flows = <<>> THEN 0 ELSE Head(flows).totalPackets + SumTotalPackets(Tail(flows))

RECURSIVE SumBuffered(_)
SumBuffered(cmap) ==
    IF cmap = <<>> THEN 0 ELSE Len(Head(cmap).packets) + SumBuffered(Tail(cmap))

AttachedRecords == RecordsWhere(routed, Attachable)

\* C38: total_flows_written is the number of flows in the chunk files and
\* of index entries; while the input is read, flow_counter is the number of
\* table entries plus pending flows plus flows written, and the records
\* attached so far are those buffered in the table plus the totalPackets of
\* the flows produced; at the end of the run the flows written and the
\* index entries are flow_counter in number, nothing is pending, and the
\* totalPackets of the flows written sum to the number of records attached.
C38_FlowConservation ==
    /\ total_flows_written = Len(WrittenFlows)
    /\ total_flows_written = Len(flows_index)
    /\ pc = "reading" =>
           /\ flow_counter = Len(connection_map) + Len(all_completed_flows) + total_flows_written
           /\ Len(AttachedRecords) = SumBuffered(connection_map) + SumTotalPackets(EmittedFlows)
    /\ pc = "done" =>
           /\ total_flows_written = flow_counter
           /\ all_completed_flows = <<>>
           /\ SumTotalPackets(WrittenFlows) = Len(AttachedRecords)

\* A finished run that created three entries, two of them for the same
\* key one after the other, and wrote their three flows in two chunk files.
C38_Witness ==
    /\ pc = "done"
    /\ flow_counter = 3
    /\ total_flows_written = 3
    /\ Len(chunk_files) = 2
    /\ \E a, b \in 1..Len(WrittenFlows) : a # b /\ WrittenFlows[a].key = WrittenFlows[b].key

====
